---- MODULE Spec2Model ----
(***************************************************************************)
(* A model of the GEO audit tool's analyze endpoint                        *)
(* (src/app/api/analyze/route.ts) and of its metrics provider adapter      *)
(* (src/lib/dataforseo.ts).                                                *)
(*                                                                         *)
(* One behaviour is one request.  The environment of the request (the      *)
(* posted url, the outcome of the page fetch, the fetched document, the    *)
(* configured credentials and what the provider answers to each of the     *)
(* three sub-requests) is drawn in Init and never changes; the actions are *)
(* the code's steps between two awaits.                                    *)
(*                                                                         *)
(* The page that shows the Analysis holds the LeadCapture form             *)
(* (src/app/page.tsx), and the report delivery endpoint                    *)
(* (src/app/api/send-report/route.ts) answers one request of its own,      *)
(* whose body, credentials and delivery outcome are drawn in Init too.     *)
(*                                                                         *)
(* JavaScript values are modelled as follows.                              *)
(*   - an optional value (x?: T, undefined, null) is a sequence of length  *)
(*     at most one: <<>> is undefined, <<v>> is the value v;               *)
(*   - numbers are integers; Math.round(n / d) is MathRound(n, d);         *)
(*   - a string whose content is never inspected is a TLA+ string; a url   *)
(*     is the sequence of its parts (scheme, "www.", host), so that        *)
(*     startsWith and the hostname are computed and not assumed;           *)
(*   - a string of which only the length is inspected (meta description,   *)
(*     title, paragraph) is its length.                                    *)
(***************************************************************************)
EXTENDS Integers, Sequences, FiniteSets, TLC

VARIABLES
    env,            \* the request's environment, fixed in Init
    pc,             \* where the POST handler is
    normalizedUrl,  \* route.ts:60
    sub,            \* the three provider sub-requests of the adapter
    metricsPromise, \* seoMetricsPromise, route.ts:80
    checks,         \* route.ts:85
    pageTitle,      \* route.ts:361
    response,       \* what the handler returned, <<>> while it runs
    renv,           \* the request to the report delivery endpoint, fixed in Init
    mail,           \* the POST handler of the report delivery endpoint
    lead            \* the LeadCapture form of the page, page.tsx:594-596

vars == <<env, pc, normalizedUrl, sub, metricsPromise, checks, pageTitle, response, renv, mail, lead>>

----------------------------------------------------------------------------
(* Optional values and arithmetic                                          *)

Undefined == <<>>

Some(v) == <<v>>

IsDefined(x) == x # <<>>

Val(x) == x[1]

\* JavaScript truthiness of an optional number: undefined and 0 are falsy.
TruthyNum(x) == IsDefined(x) /\ Val(x) # 0

\* x || y on optional numbers.
OrElse(x, y) == IF TruthyNum(x) THEN x ELSE y

\* Math.round(n / d) for d > 0: the nearest integer, a half rounding up.
MathRound(n, d) == (2 * n + d) \div (2 * d)

Min(a, b) == IF a < b THEN a ELSE b

RECURSIVE SumOver(_, _)
\* Array.prototype.reduce((acc, c) => acc + f(c), 0) over a sequence of numbers.
SumOver(s, i) == IF i = 0 THEN 0 ELSE SumOver(s, i - 1) + s[i]

RECURSIVE SelectSeqIdx(_, _, _)
SelectSeqIdx(s, Test(_), i) ==
    IF i > Len(s) THEN <<>>
    ELSE (IF Test(s[i]) THEN <<s[i]>> ELSE <<>>) \o SelectSeqIdx(s, Test, i + 1)

----------------------------------------------------------------------------
(* getGrade, route.ts:42-49                                                *)

getGradeDropsAPlus(percentage) ==
    IF percentage >= 80 THEN "A"
    ELSE IF percentage >= 70 THEN "B"
    ELSE IF percentage >= 60 THEN "C"
    ELSE IF percentage >= 50 THEN "D"
    ELSE "F"

getGrade(percentage) ==
    IF percentage >= 90 THEN "A+"
    ELSE IF percentage >= 80 THEN "A"
    ELSE IF percentage >= 70 THEN "B"
    ELSE IF percentage >= 60 THEN "C"
    ELSE IF percentage >= 50 THEN "D"
    ELSE "F"

----------------------------------------------------------------------------
(* Urls.  A url is the sequence of its parts: an optional scheme, an        *)
(* optional "www." and a host, e.g. <<"https://", "www.", "example.com">>. *)

HttpSchemes == {"http://", "https://"}

\* String.prototype.startsWith on a url, for a prefix that is a scheme.
StartsWith(url, prefix) == Len(url) > 0 /\ Head(url) = prefix

\* route.ts:60-63
NormalizeUrlNoPrefix(url) == url

NormalizeUrl(url) ==
    IF ~StartsWith(url, "http://") /\ ~StartsWith(url, "https://")
    THEN <<"https://">> \o url
    ELSE url

\* new URL(u) succeeds: a scheme followed by a non-empty host.
UrlParses(u) == Len(u) >= 2 /\ Head(u) \in HttpSchemes /\ u[2] # "https://" /\ u[2] # "http://"

\* new URL(u).hostname
Hostname(u) == Tail(u)

\* hostname.replace(/^www\./, ''), dataforseo.ts:197
BareDomain(u) == IF Len(Hostname(u)) > 0 /\ Head(Hostname(u)) = "www." THEN Tail(Hostname(u)) ELSE Hostname(u)

----------------------------------------------------------------------------
(* The metrics provider adapter, src/lib/dataforseo.ts                     *)
(*                                                                         *)
(* A provider response is [kind |-> "httpError"] (response.ok is false,    *)
(* apiRequest throws, dataforseo.ts:40-42), [kind |-> "networkError"]      *)
(* (fetch rejects) or [kind |-> "ok", result |-> r] with r the optional    *)
(* data.tasks?.[0]?.result?.[0] (the items list for the keywords).         *)

SubRequests == {"domain", "onpage", "keywords"}

NoDomainData == [rank |-> Undefined, organicTraffic |-> Undefined, organicKeywords |-> Undefined]

\* dataforseo.ts:103-129
getDomainRankOverview(resp) ==
    IF resp.kind # "ok" THEN NoDomainData
    ELSE IF ~IsDefined(resp.result) THEN NoDomainData
    ELSE [rank            |-> Val(resp.result).rank,
          organicTraffic  |-> Val(resp.result).etv,
          organicKeywords |-> Val(resp.result).count]

NoOnPageData == [onPageScore |-> Undefined, pageLoadTime |-> Undefined]

\* dataforseo.ts:131-154
getOnPageAnalysis(resp) ==
    IF resp.kind # "ok" THEN NoOnPageData
    ELSE IF ~IsDefined(resp.result) THEN NoOnPageData
    ELSE [onPageScore  |-> Val(resp.result).onpage_score,
          pageLoadTime |-> OrElse(Val(resp.result).time_to_interactive,
                                  Val(resp.result).dom_complete)]

\* item => ({keyword: ... || '', position: ... || 0, searchVolume: ... || 0})
KeywordOfItem(item) ==
    [keyword      |-> IF IsDefined(item.keyword) THEN Val(item.keyword) ELSE "",
     position     |-> IF TruthyNum(item.rank_group) THEN Val(item.rank_group) ELSE 0,
     searchVolume |-> IF TruthyNum(item.search_volume) THEN Val(item.search_volume) ELSE 0]

HasKeyword(k) == k.keyword # ""

\* dataforseo.ts:156-183
getTopRankedKeywords(resp) ==
    IF resp.kind # "ok" THEN <<>>
    ELSE LET items  == IF IsDefined(resp.result) THEN Val(resp.result) ELSE <<>>
             mapped == [i \in 1..Len(items) |-> KeywordOfItem(items[i])]
         IN  SelectSeqIdx(mapped, HasKeyword, 1)

ConfiguredLoginOnly(login, password) == login

\* !DATAFORSEO_LOGIN || !DATAFORSEO_PASSWORD, dataforseo.ts:187
Configured(login, password) == login /\ password

Unavailable(message) ==
    [available       |-> FALSE,
     domainRank      |-> Undefined,
     organicTraffic  |-> Undefined,
     organicKeywords |-> Undefined,
     onPageScore     |-> Undefined,
     pageLoadTime    |-> Undefined,
     topKeywords     |-> Undefined,
     error           |-> Some(message)]

getDataForSEOMetricsAbortsOnFailure(login, password, url, answers) ==
    IF ~Configured(login, password) THEN Unavailable("DataForSEO credentials not configured")
    ELSE IF ~UrlParses(url) THEN Unavailable("Invalid URL")
    ELSE IF \E s \in SubRequests : answers[s].kind # "ok" THEN Unavailable("DataForSEO API error")
    ELSE [available       |-> TRUE,
          domainRank      |-> getDomainRankOverview(answers["domain"]).rank,
          organicTraffic  |-> getDomainRankOverview(answers["domain"]).organicTraffic,
          organicKeywords |-> getDomainRankOverview(answers["domain"]).organicKeywords,
          onPageScore     |-> getOnPageAnalysis(answers["onpage"]).onPageScore,
          pageLoadTime    |-> getOnPageAnalysis(answers["onpage"]).pageLoadTime,
          topKeywords     |-> Some(getTopRankedKeywords(answers["keywords"])),
          error           |-> Undefined]

\* dataforseo.ts:185-222, given the provider's three answers.
getDataForSEOMetrics(login, password, url, answers) ==
    IF ~Configured(login, password) THEN Unavailable("DataForSEO credentials not configured")
    ELSE IF ~UrlParses(url) THEN Unavailable("Invalid URL")
    ELSE LET domainData == getDomainRankOverview(answers["domain"])
             onPageData == getOnPageAnalysis(answers["onpage"])
             keywords   == getTopRankedKeywords(answers["keywords"])
         IN  [available       |-> TRUE,
              domainRank      |-> domainData.rank,
              organicTraffic  |-> domainData.organicTraffic,
              organicKeywords |-> domainData.organicKeywords,
              onPageScore     |-> onPageData.onPageScore,
              pageLoadTime    |-> onPageData.pageLoadTime,
              topKeywords     |-> Some(keywords),
              error           |-> Undefined]

----------------------------------------------------------------------------
(* JSON-LD blocks, route.ts:92-117                                         *)
(*                                                                         *)
(* A block is the content of one script[type="application/ld+json"]:       *)
(*   [content |-> "empty"]      $(el).html() is falsy                      *)
(*   [content |-> "malformed"]  JSON.parse throws                          *)
(*   [content |-> "json", value |-> v]  JSON.parse returns v               *)
(* A JSON value is [k |-> "null"], [k |-> "scalar"] (a number, string or   *)
(* boolean: no own "@type"), [k |-> "arr", elems |-> <<values>>] or        *)
(* [k |-> "obj", type |-> t, graph |-> g], t the optional "@type" and g    *)
(* the optional "@graph".  An "@type" is [isString |-> b, text |-> s]:     *)
(* a string s, or a value that is not a string (an array of types).        *)

JNull == [k |-> "null"]

JScalar == [k |-> "scalar"]

JArr(elems) == [k |-> "arr", elems |-> elems]

JObj(type, graph) == [k |-> "obj", type |-> type, graph |-> graph]

TypeStr(s) == [isString |-> TRUE, text |-> s]

TypeList(s) == [isString |-> FALSE, text |-> s]

\* if (s['@type']): present and not the empty string.
TypeTruthy(t) == IsDefined(t) /\ ~(Val(t).isString /\ Val(t).text = "")

\* if (schema['@graph']): present and neither null nor another falsy value.
GraphTruthy(g) == IsDefined(g) /\ Val(g).k # "null"

RECURSIVE PushTypes(_, _)
\* arr.forEach(s => { if (s['@type']) schemaTypes.push(s['@type']) }): the types
\* pushed until the callback throws (s is null) or the array ends.
PushTypes(elems, i) ==
    IF i > Len(elems) THEN <<>>
    ELSE IF elems[i].k = "null" THEN <<>>
    ELSE (IF elems[i].k = "obj" /\ TypeTruthy(elems[i].type)
          THEN <<Val(elems[i].type)>> ELSE <<>>) \o PushTypes(elems, i + 1)

\* The body of the try block for one parsed value, route.ts:100-112.
TypesOfValue(v) ==
    IF v.k = "arr" THEN PushTypes(v.elems, 1)
    ELSE IF v.k = "obj" THEN
        IF TypeTruthy(v.type) THEN <<Val(v.type)>>
        ELSE IF GraphTruthy(v.graph) /\ Val(v.graph).k = "arr" THEN PushTypes(Val(v.graph).elems, 1)
        ELSE <<>>
    ELSE <<>>

RECURSIVE CollectSchemaAbortsOnMalformed(_, _)
CollectSchemaAbortsOnMalformed(blocks, i) ==
    IF i = 0 THEN [hasSchema |-> FALSE, schemaTypes |-> <<>>]
    ELSE LET acc == CollectSchemaAbortsOnMalformed(blocks, i - 1)
             b   == blocks[i]
         IN  IF b.content # "json" \/ (\E j \in 1..i : blocks[j].content = "malformed") THEN acc
             ELSE [hasSchema |-> TRUE, schemaTypes |-> acc.schemaTypes \o TypesOfValue(b.value)]

RECURSIVE CollectSchemaLastBlock(_, _)
CollectSchemaLastBlock(blocks, i) ==
    IF i = 0 THEN [hasSchema |-> FALSE, schemaTypes |-> <<>>]
    ELSE LET acc == CollectSchemaLastBlock(blocks, i - 1)
             b   == blocks[i]
         IN  IF b.content # "json" THEN [hasSchema |-> FALSE, schemaTypes |-> acc.schemaTypes]
             ELSE [hasSchema |-> TRUE, schemaTypes |-> acc.schemaTypes \o TypesOfValue(b.value)]

RECURSIVE CollectSchema(_, _)
\* jsonLdScripts.each(...), route.ts:96-117: [hasSchema, schemaTypes] after the
\* first i blocks.
CollectSchema(blocks, i) ==
    IF i = 0 THEN [hasSchema |-> FALSE, schemaTypes |-> <<>>]
    ELSE LET acc == CollectSchema(blocks, i - 1)
             b   == blocks[i]
         IN  IF b.content # "json" THEN acc
             ELSE [hasSchema |-> TRUE, schemaTypes |-> acc.schemaTypes \o TypesOfValue(b.value)]

\* String.prototype.toLowerCase on the schema type names of the model.
ToLowerCase(s) ==
    CASE s = "FAQPage"      -> "faqpage"
      [] s = "MyFaqList"    -> "myfaqlist"
      [] s = "Article"      -> "article"
      [] s = "HowTo"        -> "howto"
      [] s = "Person"       -> "person"
      [] s = "Organization" -> "organization"
      [] s = "WebSite"      -> "website"
      [] OTHER              -> s

\* lower.includes('faq')
IncludesFaq(lower) == lower \in {"faqpage", "myfaqlist", "faq"}

IsFaqType(t) == IncludesFaq(ToLowerCase(t.text))

IsArticleType(t) == ToLowerCase(t.text) \in {"article", "newsarticle", "blogposting", "howto"}

IsAuthorType(t) == ToLowerCase(t.text) \in {"person", "author", "organization"}

\* schemaTypes.some(t => Test(t.toLowerCase())): some() stops at the first match.
SomeType(types, Test(_)) ==
    \E i \in 1..Len(types) :
        /\ types[i].isString /\ Test(types[i])
        /\ \A j \in 1..(i - 1) : types[j].isString

\* The same call throws a TypeError (t.toLowerCase is not a function) when it
\* reaches a type that is not a string before any match.
SomeTypeThrows(types, Test(_)) ==
    \E i \in 1..Len(types) :
        /\ ~types[i].isString
        /\ \A j \in 1..(i - 1) : types[j].isString /\ ~Test(types[j])

----------------------------------------------------------------------------
(* The 21 HTML-only checks, route.ts:119-470                               *)
(*                                                                         *)
(* A document is a record of what the selectors and regular expressions of *)
(* the checks read from it (see Documents below).                          *)

Check(name, category, passed, score, maxScore, details, recommendation) ==
    [name           |-> name,
     category       |-> category,
     passed         |-> passed,
     score          |-> score,
     maxScore       |-> maxScore,
     details        |-> details,
     recommendation |-> recommendation]

Details(text, args) == [text |-> text, args |-> args]

\* passed ? undefined : text
UnlessPassed(passed, text) == IF passed THEN Undefined ELSE Some(text)

TypeTexts(types) == [i \in 1..Len(types) |-> types[i].text]

\* route.ts:119-129
JsonLdCheck(doc) ==
    LET c == CollectSchema(doc.jsonLd, Len(doc.jsonLd))
    IN  Check("JSON-LD Schema Present", "Schema Markup", c.hasSchema,
              IF c.hasSchema THEN 8 ELSE 0, 8,
              IF c.hasSchema THEN Details("Found schema types", TypeTexts(c.schemaTypes))
                             ELSE Details("No JSON-LD structured data found", <<>>),
              UnlessPassed(c.hasSchema, "Add JSON-LD schema markup to help AI understand your content structure"))

\* route.ts:131-143
FaqSchemaCheck(doc) ==
    LET hasFAQSchema == SomeType(CollectSchema(doc.jsonLd, Len(doc.jsonLd)).schemaTypes, IsFaqType)
    IN  Check("FAQ Schema", "Schema Markup", hasFAQSchema,
              IF hasFAQSchema THEN 7 ELSE 0, 7,
              IF hasFAQSchema THEN Details("FAQPage schema detected - excellent for AI Overviews", <<>>)
                              ELSE Details("No FAQ schema found", <<>>),
              UnlessPassed(hasFAQSchema, "Add FAQPage schema to increase chances of appearing in AI-generated answers"))

\* route.ts:145-159
ArticleSchemaCheck(doc) ==
    LET hasArticleSchema == SomeType(CollectSchema(doc.jsonLd, Len(doc.jsonLd)).schemaTypes, IsArticleType)
    IN  Check("Article/HowTo Schema", "Schema Markup", hasArticleSchema,
              IF hasArticleSchema THEN 5 ELSE 0, 5,
              IF hasArticleSchema THEN Details("Article or HowTo schema detected", <<>>)
                                  ELSE Details("No Article/HowTo schema found", <<>>),
              UnlessPassed(hasArticleSchema, "Add Article or HowTo schema for better content classification"))

\* route.ts:161-175
AuthorSchemaCheck(doc) ==
    LET hasAuthorSchema == SomeType(CollectSchema(doc.jsonLd, Len(doc.jsonLd)).schemaTypes, IsAuthorType)
    IN  Check("Author/Organization Schema", "Schema Markup", hasAuthorSchema,
              IF hasAuthorSchema THEN 5 ELSE 0, 5,
              IF hasAuthorSchema THEN Details("Person/Organization schema detected - supports E-E-A-T", <<>>)
                                 ELSE Details("No author or organization schema found", <<>>),
              UnlessPassed(hasAuthorSchema, "Add Person or Organization schema to establish authorship and credibility"))

\* One of the three schemaTypes.some(...) calls throws, route.ts:132-164.
SchemaChecksThrow(doc) ==
    LET types == CollectSchema(doc.jsonLd, Len(doc.jsonLd)).schemaTypes
    IN  \/ SomeTypeThrows(types, IsFaqType)
        \/ SomeTypeThrows(types, IsArticleType)
        \/ SomeTypeThrows(types, IsAuthorType)

\* $('hN').length
HeadingCount(doc, level) == Cardinality({i \in 1..Len(doc.headings) : doc.headings[i].level = level})

\* route.ts:181-197
QuestionHeadingsCheck(doc) ==
    LET questionHeadings    == Cardinality({i \in 1..Len(doc.headings) : doc.headings[i].question})
        hasQuestionHeadings == questionHeadings >= 2
    IN  Check("Question-Based Headings", "Content Structure", hasQuestionHeadings,
              IF hasQuestionHeadings THEN 8 ELSE (IF questionHeadings > 0 THEN 4 ELSE 0), 8,
              Details("Found question-based headings", <<questionHeadings>>),
              UnlessPassed(hasQuestionHeadings, "Use question-based H2 headings that match user search queries"))

HeadingHierarchyCheckAnyH1(doc) ==
    LET h1Count == HeadingCount(doc, 1)
        h2Count == HeadingCount(doc, 2)
        hasGoodHeadingStructure == h1Count >= 1 /\ h2Count >= 2
    IN  Check("Heading Hierarchy", "Content Structure", hasGoodHeadingStructure,
              IF hasGoodHeadingStructure THEN 5 ELSE (IF h1Count >= 1 THEN 3 ELSE 0), 5,
              Details("H1, H2, H3", <<h1Count, h2Count, HeadingCount(doc, 3)>>),
              UnlessPassed(hasGoodHeadingStructure, "Use exactly one H1 and multiple H2s to create clear content sections"))

\* route.ts:199-212
HeadingHierarchyCheck(doc) ==
    LET h1Count == HeadingCount(doc, 1)
        h2Count == HeadingCount(doc, 2)
        hasGoodHeadingStructure == h1Count = 1 /\ h2Count >= 2
    IN  Check("Heading Hierarchy", "Content Structure", hasGoodHeadingStructure,
              IF hasGoodHeadingStructure THEN 5 ELSE (IF h1Count = 1 THEN 3 ELSE 0), 5,
              Details("H1, H2, H3", <<h1Count, h2Count, HeadingCount(doc, 3)>>),
              UnlessPassed(hasGoodHeadingStructure, "Use exactly one H1 and multiple H2s to create clear content sections"))

\* route.ts:214-226
StructuredListsCheck(doc) ==
    LET listItems == doc.ulItems + doc.olItems
        hasLists  == listItems >= 3
    IN  Check("Structured Lists", "Content Structure", hasLists,
              IF hasLists THEN 5 ELSE 0, 5,
              Details("Found list items", <<listItems>>),
              UnlessPassed(hasLists, "Use bullet points and numbered lists to make content scannable for AI"))

LongerThan20(p) == p.trimmed > 20

\* route.ts:228-243.  avgParagraphLength is total / n (0 when n = 0), so it is
\* compared with a threshold t as total < t * n.
ParagraphLengthCheck(doc) ==
    LET paragraphs == SelectSeqIdx(doc.paragraphs, LongerThan20, 1)
        n          == Len(paragraphs)
        total      == SumOver([i \in 1..n |-> paragraphs[i].len], n)
        avgPositive == n > 0 /\ total > 0
        avgBelow(t) == IF n > 0 THEN total < t * n ELSE 0 < t
        hasGoodParagraphLength == avgPositive /\ avgBelow(500)
    IN  Check("Paragraph Length", "Content Structure", hasGoodParagraphLength,
              IF hasGoodParagraphLength THEN 4 ELSE (IF avgBelow(700) THEN 2 ELSE 0), 4,
              Details("Average paragraph", <<IF n > 0 THEN MathRound(total, n) ELSE 0, n>>),
              UnlessPassed(hasGoodParagraphLength, "Keep paragraphs under 3-4 sentences for better AI parsing"))

\* route.ts:245-262
SummaryCheck(doc) ==
    LET found == doc.tocElement \/ doc.keyTakeawayText
    IN  Check("Quick Summary / Key Takeaways", "Content Structure", found,
              IF found THEN 3 ELSE 0, 3,
              IF found THEN Details("Summary or key takeaways section detected", <<>>)
                       ELSE Details("No quick summary or key takeaways found", <<>>),
              UnlessPassed(found, "Add a Key Takeaways or summary section at the top for AI to extract"))

\* route.ts:268-282
AuthorAttributionCheck(doc) ==
    LET hasAuthorName == doc.authorElement \/ doc.bylineText
    IN  Check("Author Attribution", "E-E-A-T Signals", hasAuthorName,
              IF hasAuthorName THEN 5 ELSE 0, 5,
              IF hasAuthorName THEN Details("Author attribution detected", <<>>)
                               ELSE Details("No clear author attribution found", <<>>),
              UnlessPassed(hasAuthorName, "Add visible author name with Written by or author byline"))

\* route.ts:284-298
AuthorBioCheck(doc) ==
    LET hasAuthorBio == doc.authorBioElement \/ doc.aboutAuthorText
    IN  Check("Author Bio/Credentials", "E-E-A-T Signals", hasAuthorBio,
              IF hasAuthorBio THEN 5 ELSE 0, 5,
              IF hasAuthorBio THEN Details("Author bio or credentials detected", <<>>)
                              ELSE Details("No author bio found", <<>>),
              UnlessPassed(hasAuthorBio, "Add an author bio with credentials and expertise to build trust"))

\* The filter callback of route.ts:301-310 on one a[href^="http"].
IsExternalLink(href, url) ==
    /\ Len(href) > 0 /\ Head(href) \in HttpSchemes
    /\ UrlParses(href) /\ UrlParses(url)
    /\ Hostname(href) # Hostname(url)

\* route.ts:300-321
ExternalCitationsCheck(doc, url) ==
    LET externalLinks == Cardinality({i \in 1..Len(doc.links) : IsExternalLink(doc.links[i], url)})
        hasExternalCitations == externalLinks >= 2
    IN  Check("External Citations", "E-E-A-T Signals", hasExternalCitations,
              IF hasExternalCitations THEN 5 ELSE (IF externalLinks > 0 THEN 2 ELSE 0), 5,
              Details("Found external links", <<externalLinks>>),
              UnlessPassed(hasExternalCitations, "Cite reputable external sources to demonstrate research and credibility"))

\* route.ts:323-338
PublicationDateCheck(doc) ==
    LET hasDate == doc.dateElement \/ doc.monthDateText \/ doc.numericDateText
    IN  Check("Publication Date", "E-E-A-T Signals", hasDate,
              IF hasDate THEN 5 ELSE 0, 5,
              IF hasDate THEN Details("Publication or update date detected", <<>>)
                         ELSE Details("No visible date found", <<>>),
              UnlessPassed(hasDate, "Add visible publication and last updated dates to show content freshness"))

MetaDescriptionCheckExclusive(doc) ==
    LET length == IF IsDefined(doc.metaDescription) THEN Val(doc.metaDescription) ELSE 0
        hasGoodMetaDescription == length > 120 /\ length < 160
    IN  Check("Meta Description", "Meta & Technical", hasGoodMetaDescription,
              IF hasGoodMetaDescription THEN 4 ELSE (IF length > 0 THEN 2 ELSE 0), 4,
              IF length > 0 THEN Details("characters", <<length>>)
                            ELSE Details("No meta description found", <<>>),
              UnlessPassed(hasGoodMetaDescription, "Add a compelling meta description between 120-160 characters"))

\* route.ts:344-358
MetaDescriptionCheck(doc) ==
    LET length == IF IsDefined(doc.metaDescription) THEN Val(doc.metaDescription) ELSE 0
        hasGoodMetaDescription == length >= 120 /\ length <= 160
    IN  Check("Meta Description", "Meta & Technical", hasGoodMetaDescription,
              IF hasGoodMetaDescription THEN 4 ELSE (IF length > 0 THEN 2 ELSE 0), 4,
              IF length > 0 THEN Details("characters", <<length>>)
                            ELSE Details("No meta description found", <<>>),
              UnlessPassed(hasGoodMetaDescription, "Add a compelling meta description between 120-160 characters"))

\* route.ts:360-374
PageTitleCheck(doc) ==
    LET length == doc.title
        hasGoodTitle == length >= 30 /\ length <= 60
    IN  Check("Page Title Optimization", "Meta & Technical", hasGoodTitle,
              IF hasGoodTitle THEN 4 ELSE (IF length > 0 THEN 2 ELSE 0), 4,
              IF length > 0 THEN Details("chars", <<length>>)
                            ELSE Details("No title tag found", <<>>),
              UnlessPassed(hasGoodTitle, "Optimize title tag to 30-60 characters with primary keyword"))

\* route.ts:376-389
ViewportCheck(doc) ==
    Check("Mobile Viewport", "Meta & Technical", doc.viewport,
          IF doc.viewport THEN 3 ELSE 0, 3,
          IF doc.viewport THEN Details("Mobile viewport meta tag present", <<>>)
                          ELSE Details("No mobile viewport tag found", <<>>),
          UnlessPassed(doc.viewport, "Add viewport meta tag for mobile responsiveness"))

\* route.ts:391-404
CanonicalCheck(doc) ==
    Check("Canonical URL", "Meta & Technical", doc.canonical,
          IF doc.canonical THEN 2 ELSE 0, 2,
          IF doc.canonical THEN Details("Canonical URL specified", <<>>)
                           ELSE Details("No canonical URL found", <<>>),
          UnlessPassed(doc.canonical, "Add canonical URL to prevent duplicate content issues"))

\* route.ts:406-419
HttpsCheck(url) ==
    LET isHTTPS == StartsWith(url, "https://")
    IN  Check("HTTPS Security", "Meta & Technical", isHTTPS,
              IF isHTTPS THEN 2 ELSE 0, 2,
              IF isHTTPS THEN Details("Site is served over HTTPS", <<>>)
                         ELSE Details("Site is not using HTTPS", <<>>),
              UnlessPassed(isHTTPS, "Enable HTTPS for security and SEO benefits"))

\* route.ts:425-439
DefinitionsCheck(doc) ==
    Check("Definition-Style Content", "AI Snippet Optimization", doc.definitionText,
          IF doc.definitionText THEN 5 ELSE 0, 5,
          IF doc.definitionText THEN Details("Definition-style sentences found - good for AI extraction", <<>>)
                                ELSE Details("No clear definitions found", <<>>),
          UnlessPassed(doc.definitionText, "Include clear definitions that AI can quote"))

\* route.ts:441-455
StepsCheck(doc) ==
    LET hasSteps == doc.stepText \/ doc.olItems >= 3
    IN  Check("Step-by-Step Instructions", "AI Snippet Optimization", hasSteps,
              IF hasSteps THEN 5 ELSE 0, 5,
              IF hasSteps THEN Details("Step-by-step or numbered instructions detected", <<>>)
                          ELSE Details("No step-by-step content found", <<>>),
              UnlessPassed(hasSteps, "Structure how-to content with numbered steps for featured snippets"))

\* route.ts:457-470
StatisticsCheck(doc) ==
    Check("Statistics & Data Points", "AI Snippet Optimization", doc.statisticsText,
          IF doc.statisticsText THEN 5 ELSE 0, 5,
          IF doc.statisticsText THEN Details("Statistics or data points found - quotable by AI", <<>>)
                                ELSE Details("No statistics or specific data found", <<>>),
          UnlessPassed(doc.statisticsText, "Include specific statistics and data points that AI can cite"))

\* The checks pushed by route.ts:119-470, in the order of the pushes.
HtmlChecks(doc, url) ==
    << JsonLdCheck(doc), FaqSchemaCheck(doc), ArticleSchemaCheck(doc), AuthorSchemaCheck(doc),
       QuestionHeadingsCheck(doc), HeadingHierarchyCheck(doc), StructuredListsCheck(doc),
       ParagraphLengthCheck(doc), SummaryCheck(doc),
       AuthorAttributionCheck(doc), AuthorBioCheck(doc), ExternalCitationsCheck(doc, url),
       PublicationDateCheck(doc),
       MetaDescriptionCheck(doc), PageTitleCheck(doc), ViewportCheck(doc), CanonicalCheck(doc),
       HttpsCheck(url),
       DefinitionsCheck(doc), StepsCheck(doc), StatisticsCheck(doc) >>

----------------------------------------------------------------------------
(* The metrics-derived checks, route.ts:479-551                            *)

\* Domain Authority with the recommendation given below the full score
\* instead of below the pass mark.
DomainAuthorityCheckAdvisesBelowMax(m) ==
    LET domainRank  == m.domainRank
        domainScore == IF TruthyNum(domainRank) THEN Min(5, MathRound(Val(domainRank), 200)) ELSE 0
    IN  Check("Domain Authority", "E-E-A-T Signals", domainScore >= 3, domainScore, 5,
              IF TruthyNum(domainRank) THEN Details("Domain rank", <<Val(domainRank)>>)
                                       ELSE Details("Unable to determine domain rank", <<>>),
              IF domainScore < 5
              THEN Some("Build quality backlinks and create valuable content to improve domain authority")
              ELSE Undefined)

\* route.ts:480-495
DomainAuthorityCheck(m) ==
    LET domainRank  == m.domainRank
        domainScore == IF TruthyNum(domainRank) THEN Min(5, MathRound(Val(domainRank), 200)) ELSE 0
    IN  Check("Domain Authority", "E-E-A-T Signals", domainScore >= 3, domainScore, 5,
              IF TruthyNum(domainRank) THEN Details("Domain rank", <<Val(domainRank)>>)
                                       ELSE Details("Unable to determine domain rank", <<>>),
              IF domainScore < 3
              THEN Some("Build quality backlinks and create valuable content to improve domain authority")
              ELSE Undefined)

\* route.ts:500-502
VisibilityScore(organicKeywords) ==
    IF TruthyNum(organicKeywords)
    THEN (IF Val(organicKeywords) > 1000 THEN 5
          ELSE IF Val(organicKeywords) > 500 THEN 4
          ELSE IF Val(organicKeywords) > 100 THEN 3
          ELSE IF Val(organicKeywords) > 10 THEN 2
          ELSE 1)
    ELSE 0

\* route.ts:497-514
OrganicVisibilityCheck(m) ==
    LET organicKeywords      == m.organicKeywords
        hasOrganicVisibility == IsDefined(organicKeywords) /\ Val(organicKeywords) > 100
    IN  Check("Organic Search Visibility", "E-E-A-T Signals", hasOrganicVisibility,
              VisibilityScore(organicKeywords), 5,
              IF IsDefined(organicKeywords) THEN Details("Ranking for keywords organically", <<Val(organicKeywords)>>)
                                            ELSE Details("Unable to determine organic visibility", <<>>),
              IF ~hasOrganicVisibility
              THEN Some("Create more content targeting relevant keywords to increase organic visibility")
              ELSE Undefined)

\* route.ts:519-521
PerformanceScore(pageLoadTime) ==
    IF TruthyNum(pageLoadTime)
    THEN (IF Val(pageLoadTime) < 2000 THEN 4
          ELSE IF Val(pageLoadTime) < 3000 THEN 3
          ELSE IF Val(pageLoadTime) < 5000 THEN 2
          ELSE 1)
    ELSE 0

\* The check pushed for a truthy pageLoadTime only.
PageLoadChecksWhenTruthy(m) ==
    LET pageLoadTime == m.pageLoadTime
    IN  IF TruthyNum(pageLoadTime)
        THEN << Check("Page Load Performance", "Meta & Technical", Val(pageLoadTime) < 3000,
                      PerformanceScore(pageLoadTime), 4,
                      Details("Time to interactive", <<Val(pageLoadTime)>>),
                      IF ~(Val(pageLoadTime) < 3000)
                      THEN Some("Optimize images, minimize JavaScript, and use caching to improve load time")
                      ELSE Undefined) >>
        ELSE <<>>

\* route.ts:516-533
PageLoadChecks(m) ==
    LET pageLoadTime       == m.pageLoadTime
        hasGoodPerformance == IsDefined(pageLoadTime) /\ Val(pageLoadTime) < 3000
    IN  IF IsDefined(pageLoadTime)
        THEN << Check("Page Load Performance", "Meta & Technical", hasGoodPerformance,
                      PerformanceScore(pageLoadTime), 4,
                      Details("Time to interactive", <<Val(pageLoadTime)>>),
                      IF ~hasGoodPerformance
                      THEN Some("Optimize images, minimize JavaScript, and use caching to improve load time")
                      ELSE Undefined) >>
        ELSE <<>>

\* The check filed under a category of its own.
OnPageChecksOwnCategory(m) ==
    LET onPageScore == m.onPageScore
    IN  IF IsDefined(onPageScore)
        THEN << Check("On-Page SEO Score", "Technical SEO", Val(onPageScore) >= 70,
                      MathRound(Val(onPageScore), 20), 5,
                      Details("DataForSEO on-page score", <<Val(onPageScore)>>),
                      IF ~(Val(onPageScore) >= 70)
                      THEN Some("Address technical SEO issues identified by the on-page analysis")
                      ELSE Undefined) >>
        ELSE <<>>

\* route.ts:535-550
OnPageChecks(m) ==
    LET onPageScore == m.onPageScore
    IN  IF IsDefined(onPageScore)
        THEN LET onPagePassed == Val(onPageScore) >= 70
                 onPagePoints == MathRound(Val(onPageScore), 20)
             IN  << Check("On-Page SEO Score", "Meta & Technical", onPagePassed, onPagePoints, 5,
                          Details("DataForSEO on-page score", <<Val(onPageScore)>>),
                          IF ~onPagePassed
                          THEN Some("Address technical SEO issues identified by the on-page analysis")
                          ELSE Undefined) >>
        ELSE <<>>

\* seoMetrics?.available, with seoMetrics null (<<>>) or a DataForSEOMetrics.
IsAvailable(seoMetrics) == IsDefined(seoMetrics) /\ Val(seoMetrics).available

\* The same checks with Domain Authority and Organic Search Visibility
\* guarded by their metric, as the two on-page checks are.
MetricsChecksOnlyDefined(seoMetrics) ==
    IF IsAvailable(seoMetrics)
    THEN (IF IsDefined(Val(seoMetrics).domainRank) THEN <<DomainAuthorityCheck(Val(seoMetrics))>> ELSE <<>>)
         \o (IF IsDefined(Val(seoMetrics).organicKeywords) THEN <<OrganicVisibilityCheck(Val(seoMetrics))>> ELSE <<>>)
         \o PageLoadChecks(Val(seoMetrics)) \o OnPageChecks(Val(seoMetrics))
    ELSE <<>>

MetricsChecksOnPageFirst(seoMetrics) ==
    IF IsAvailable(seoMetrics)
    THEN OnPageChecks(Val(seoMetrics)) \o PageLoadChecks(Val(seoMetrics))
         \o << DomainAuthorityCheck(Val(seoMetrics)), OrganicVisibilityCheck(Val(seoMetrics)) >>
    ELSE <<>>

\* The checks pushed by route.ts:479-551.
MetricsChecks(seoMetrics) ==
    IF IsAvailable(seoMetrics)
    THEN << DomainAuthorityCheck(Val(seoMetrics)), OrganicVisibilityCheck(Val(seoMetrics)) >>
         \o PageLoadChecks(Val(seoMetrics)) \o OnPageChecks(Val(seoMetrics))
    ELSE <<>>

----------------------------------------------------------------------------
(* Aggregation, route.ts:557-584                                           *)

Scores(cs) == [i \in 1..Len(cs) |-> cs[i].score]

MaxScores(cs) == [i \in 1..Len(cs) |-> cs[i].maxScore]

\* A total taken over the HTML-only checks alone, as if it were computed
\* before the metrics-derived checks are appended.
TotalScoreBeforeMetrics(cs) == SumOver(Scores(cs), Min(Len(cs), 21))

\* checks.reduce((acc, check) => acc + check.score, 0), route.ts:557
TotalScore(cs) == SumOver(Scores(cs), Len(cs))

TotalMaxScoreHtmlOnly(cs) == SumOver(MaxScores(cs), Min(Len(cs), 21))

\* checks.reduce((acc, check) => acc + check.maxScore, 0), route.ts:558
TotalMaxScore(cs) == SumOver(MaxScores(cs), Len(cs))

\* Math.round((totalScore / maxScore) * 100), route.ts:559.  maxScore is one of
\* 100, 110, 114, 115, 119, for which no quotient lies at a half, so the
\* floating-point result is the exact rounding.
Percentage(totalScore, maxScore) == MathRound(100 * totalScore, maxScore)

\* checks.filter(Test).length
CountWhere(cs, Test(_)) == Cardinality({i \in 1..Len(cs) : Test(cs[i])})

IsPassed(c) == c.passed

IsFailed(c) == ~c.passed /\ c.score = 0

\* A warning counted by the score alone, whatever passed says.
IsWarningByScore(c) == c.score > 0 /\ c.score < c.maxScore

IsWarning(c) == ~c.passed /\ c.score > 0

\* route.ts:568-572
Summary(cs) ==
    [passed   |-> CountWhere(cs, IsPassed),
     failed   |-> CountWhere(cs, IsFailed),
     warnings |-> CountWhere(cs, IsWarning)]

\* The block included for every adapter record, available or not.
SeoMetricsBlockWhenNonNull(seoMetrics) ==
    IF IsDefined(seoMetrics)
    THEN Some([domainRank      |-> Val(seoMetrics).domainRank,
               organicTraffic  |-> Val(seoMetrics).organicTraffic,
               organicKeywords |-> Val(seoMetrics).organicKeywords,
               onPageScore     |-> Val(seoMetrics).onPageScore,
               pageLoadTime    |-> Val(seoMetrics).pageLoadTime,
               topKeywords     |-> Val(seoMetrics).topKeywords])
    ELSE Undefined

\* route.ts:574-581
SeoMetricsBlock(seoMetrics) ==
    IF IsAvailable(seoMetrics)
    THEN Some([domainRank      |-> Val(seoMetrics).domainRank,
               organicTraffic  |-> Val(seoMetrics).organicTraffic,
               organicKeywords |-> Val(seoMetrics).organicKeywords,
               onPageScore     |-> Val(seoMetrics).onPageScore,
               pageLoadTime    |-> Val(seoMetrics).pageLoadTime,
               topKeywords     |-> Val(seoMetrics).topKeywords])
    ELSE Undefined

\* pageTitle || 'Untitled Page', a title being its length.
TitleOf(title) == IF title > 0 THEN [untitled |-> FALSE, length |-> title]
                               ELSE [untitled |-> TRUE, length |-> 0]

\* route.ts:561-582
Analysis(url, title, cs, seoMetrics) ==
    [url          |-> url,
     title        |-> TitleOf(title),
     overallScore |-> TotalScore(cs),
     maxScore     |-> TotalMaxScore(cs),
     grade        |-> getGrade(Percentage(TotalScore(cs), TotalMaxScore(cs))),
     checks       |-> cs,
     summary      |-> Summary(cs),
     seoMetrics   |-> SeoMetricsBlock(seoMetrics)]

\* NextResponse.json(analysis)
AnalysisResponse(analysis) == [status |-> 200, error |-> "", analysis |-> Some(analysis)]

\* NextResponse.json({ error }, { status })
ErrorResponse(status, error) == [status |-> status, error |-> error, analysis |-> Undefined]

ErrorResponseForWithoutTimeout(error) ==
    IF error.isAxios /\ error.code = "ENOTFOUND"
    THEN ErrorResponse(400, "Domain not found. Please check the URL.")
    ELSE IF error.isAxios /\ error.status = 403
    THEN ErrorResponse(400, "Access denied by the website. The site may be blocking automated requests.")
    ELSE IF error.isAxios /\ error.status = 404
    THEN ErrorResponse(400, "Page not found (404). Please check the URL.")
    ELSE ErrorResponse(500, "Failed to analyze the URL. Please try again.")

\* The catch block of the handler, route.ts:586-605, on a thrown error
\* [isAxios, code, status] (status 0: the error has no response).
ErrorResponseFor(error) ==
    IF error.isAxios /\ error.code = "ENOTFOUND"
    THEN ErrorResponse(400, "Domain not found. Please check the URL.")
    ELSE IF error.isAxios /\ error.status = 403
    THEN ErrorResponse(400, "Access denied by the website. The site may be blocking automated requests.")
    ELSE IF error.isAxios /\ error.status = 404
    THEN ErrorResponse(400, "Page not found (404). Please check the URL.")
    ELSE IF error.isAxios /\ error.code \in {"ETIMEDOUT", "ECONNABORTED"}
    THEN ErrorResponse(400, "Request timed out. The website may be slow or unavailable.")
    ELSE ErrorResponse(500, "Failed to analyze the URL. Please try again.")

\* A TypeError thrown by the handler's own code.
TypeError == [isAxios |-> FALSE, code |-> "", status |-> 0]

----------------------------------------------------------------------------
(* The environments of a request                                           *)

\* The most JSON-LD blocks in a document.
MaxBlocks == 2

BlockSamples ==
    { [content |-> "empty"],
      [content |-> "malformed"],
      [content |-> "json", value |-> JNull],
      [content |-> "json", value |-> JObj(Some(TypeStr("FAQPage")), Undefined)],
      [content |-> "json", value |-> JObj(Some(TypeStr("WebSite")), Undefined)],
      [content |-> "json", value |-> JObj(Some(TypeList("Article,Person")), Undefined)],
      [content |-> "json", value |-> JObj(Undefined, Some(JArr(<<JObj(Some(TypeStr("HowTo")), Undefined), JNull,
                                                                  JObj(Some(TypeStr("Person")), Undefined)>>)))],
      [content |-> "json", value |-> JObj(Undefined, Some(JObj(Some(TypeStr("Article")), Undefined)))],
      [content |-> "json", value |-> JArr(<<JObj(Some(TypeStr("Organization")), Undefined), JScalar,
                                            JObj(Some(TypeStr("")), Undefined),
                                            JObj(Some(TypeStr("MyFaqList")), Undefined)>>)] }

BlockSeqs == UNION {[1..n -> BlockSamples] : n \in 0..MaxBlocks}

Heading(level, question) == [level |-> level, question |-> question]

HeadingSamples ==
    { <<>>,
      <<Heading(1, FALSE)>>,
      <<Heading(1, TRUE)>>,
      <<Heading(1, FALSE), Heading(2, FALSE)>>,
      <<Heading(1, FALSE), Heading(2, TRUE), Heading(2, FALSE)>>,
      <<Heading(1, FALSE), Heading(2, TRUE), Heading(2, TRUE), Heading(3, TRUE)>>,
      <<Heading(1, FALSE), Heading(1, FALSE), Heading(2, FALSE), Heading(2, FALSE)>>,
      <<Heading(2, TRUE), Heading(2, FALSE), Heading(3, FALSE)>>,
      <<Heading(1, FALSE), Heading(3, TRUE), Heading(3, TRUE)>> }

Paragraph(len, trimmed) == [len |-> len, trimmed |-> trimmed]

ParagraphSamples ==
    { <<>>,
      <<Paragraph(20, 20)>>,
      <<Paragraph(30, 10)>>,
      <<Paragraph(21, 21)>>,
      <<Paragraph(499, 499)>>,
      <<Paragraph(500, 500)>>,
      <<Paragraph(699, 699)>>,
      <<Paragraph(700, 700)>>,
      <<Paragraph(900, 900), Paragraph(98, 98)>>,
      <<Paragraph(900, 900), Paragraph(15, 15), Paragraph(499, 499)>>,
      <<Paragraph(1200, 1200), Paragraph(10, 10)>> }

LinkSamples ==
    { <<>>,
      << <<"/about">> >>,
      << <<"https://", "example.com">> >>,
      << <<"https://", "other.org">> >>,
      << <<"http://">>, <<"https://", "other.org">> >>,
      << <<"https://", "www.", "example.com">>, <<"http://", "cite.net">> >>,
      << <<"https://", "other.org">>, <<"http://", "cite.net">> >> }

MetaDescriptionSamples == {Undefined, Some(0), Some(50), Some(119), Some(120), Some(160), Some(161)}

TitleSamples == {0, 10, 29, 30, 60, 61}

EmptyDoc ==
    [jsonLd           |-> <<>>,
     headings         |-> <<>>,
     ulItems          |-> 0,
     olItems          |-> 0,
     paragraphs       |-> <<>>,
     tocElement       |-> FALSE,
     keyTakeawayText  |-> FALSE,
     authorElement    |-> FALSE,
     bylineText       |-> FALSE,
     authorBioElement |-> FALSE,
     aboutAuthorText  |-> FALSE,
     links            |-> <<>>,
     dateElement      |-> FALSE,
     monthDateText    |-> FALSE,
     numericDateText  |-> FALSE,
     metaDescription  |-> Undefined,
     title            |-> 0,
     viewport         |-> FALSE,
     canonical        |-> FALSE,
     definitionText   |-> FALSE,
     stepText         |-> FALSE,
     statisticsText   |-> FALSE]

RichDoc ==
    [jsonLd           |-> << [content |-> "json", value |-> JObj(Some(TypeStr("FAQPage")), Undefined)],
                             [content |-> "json", value |-> JArr(<<JObj(Some(TypeStr("Article")), Undefined),
                                                                   JObj(Some(TypeStr("Person")), Undefined)>>)] >>,
     headings         |-> <<Heading(1, FALSE), Heading(2, TRUE), Heading(2, TRUE)>>,
     ulItems          |-> 2,
     olItems          |-> 3,
     paragraphs       |-> <<Paragraph(120, 118), Paragraph(300, 300)>>,
     tocElement       |-> TRUE,
     keyTakeawayText  |-> TRUE,
     authorElement    |-> TRUE,
     bylineText       |-> TRUE,
     authorBioElement |-> TRUE,
     aboutAuthorText  |-> TRUE,
     links            |-> << <<"https://", "other.org">>, <<"http://", "cite.net">> >>,
     dateElement      |-> TRUE,
     monthDateText    |-> TRUE,
     numericDateText  |-> TRUE,
     metaDescription  |-> Some(140),
     title            |-> 45,
     viewport         |-> TRUE,
     canonical        |-> TRUE,
     definitionText   |-> TRUE,
     stepText         |-> TRUE,
     statisticsText   |-> TRUE]

\* RichDoc with less and less of its content: documents of every grade.
SchemaLess == [RichDoc EXCEPT !.jsonLd = <<>>]

AuthorLess == [SchemaLess EXCEPT !.authorElement = FALSE, !.bylineText = FALSE,
                                 !.authorBioElement = FALSE, !.aboutAuthorText = FALSE]

SnippetLess == [AuthorLess EXCEPT !.definitionText = FALSE, !.statisticsText = FALSE]

ListLess == [SnippetLess EXCEPT !.ulItems = 0, !.olItems = 0, !.stepText = FALSE]

BaseDocs == {EmptyDoc, RichDoc, SchemaLess, AuthorLess, SnippetLess, ListLess}

\* d without the content named in off.
Strip(d, off) ==
    [d EXCEPT !.definitionText   = d.definitionText /\ "definitions" \notin off,
              !.statisticsText   = d.statisticsText /\ "statistics" \notin off,
              !.authorElement    = d.authorElement /\ "author" \notin off,
              !.bylineText       = d.bylineText /\ "author" \notin off,
              !.authorBioElement = d.authorBioElement /\ "bio" \notin off,
              !.aboutAuthorText  = d.aboutAuthorText /\ "bio" \notin off,
              !.dateElement      = d.dateElement /\ "date" \notin off,
              !.monthDateText    = d.monthDateText /\ "date" \notin off,
              !.numericDateText  = d.numericDateText /\ "date" \notin off,
              !.tocElement       = d.tocElement /\ "summary" \notin off,
              !.keyTakeawayText  = d.keyTakeawayText /\ "summary" \notin off,
              !.viewport         = d.viewport /\ "viewport" \notin off,
              !.canonical        = d.canonical /\ "canonical" \notin off,
              !.metaDescription  = IF "meta" \in off THEN Undefined ELSE d.metaDescription,
              !.title            = IF "title" \in off THEN 0 ELSE d.title]

\* Documents that score 90, 89, 80, 79, 70, 69, 60, 59, 50 and 49 of 100 when
\* served over https: the two sides of every grade boundary.
BoundaryDocs ==
    {Strip(RichDoc, off) :
        off \in { {"definitions", "statistics"},
                  {"meta", "title", "viewport"},
                  {"definitions", "statistics", "author", "bio"},
                  {"meta", "title", "viewport", "definitions", "statistics"},
                  {"definitions", "statistics", "author", "bio", "date", "summary", "canonical"},
                  {"meta", "title", "viewport", "definitions", "statistics", "author", "bio"} }}
    \cup {Strip(SchemaLess, off) :
        off \in { {"definitions", "statistics", "author"},
                  {"meta", "title", "viewport", "summary", "canonical"},
                  {"definitions", "statistics", "author", "bio", "date"},
                  {"definitions", "statistics", "author", "bio", "viewport", "summary"} }}

\* The documents that differ from d in what one group of checks reads.
Variants(d) ==
    {[d EXCEPT !.headings = h] : h \in HeadingSamples}
    \cup {[d EXCEPT !.ulItems = u, !.olItems = o] : u \in {0, 1, 3}, o \in {0, 2, 3}}
    \cup {[d EXCEPT !.paragraphs = p] : p \in ParagraphSamples}
    \cup {[d EXCEPT !.tocElement = a, !.keyTakeawayText = b] : a, b \in BOOLEAN}
    \cup {[d EXCEPT !.authorElement = a, !.bylineText = b] : a, b \in BOOLEAN}
    \cup {[d EXCEPT !.authorBioElement = a, !.aboutAuthorText = b] : a, b \in BOOLEAN}
    \cup {[d EXCEPT !.links = l] : l \in LinkSamples}
    \cup {[d EXCEPT !.dateElement = a, !.monthDateText = b, !.numericDateText = c] : a, b, c \in BOOLEAN}
    \cup {[d EXCEPT !.metaDescription = m] : m \in MetaDescriptionSamples}
    \cup {[d EXCEPT !.title = t] : t \in TitleSamples}
    \cup {[d EXCEPT !.viewport = a, !.canonical = b] : a, b \in BOOLEAN}
    \cup {[d EXCEPT !.definitionText = a, !.stepText = b, !.statisticsText = c] : a, b, c \in BOOLEAN}

Documents ==
    BaseDocs \cup BoundaryDocs \cup Variants(EmptyDoc) \cup Variants(RichDoc)
    \cup {[EmptyDoc EXCEPT !.jsonLd = s] : s \in BlockSeqs}

\* The provider's answers.  The adapter passes every number through as it
\* is (dataforseo.ts:120-124, 146-149, 206-214), whatever its range.
HttpError == [kind |-> "httpError"]

NetworkError == [kind |-> "networkError"]

Ok(result) == [kind |-> "ok", result |-> result]

RankSamples == {Undefined, Some(-400), Some(0), Some(99), Some(100), Some(500), Some(600), Some(1000), Some(1200)}

KeywordCountSamples ==
    {Undefined, Some(0), Some(10), Some(11), Some(100), Some(101), Some(500), Some(501), Some(1000), Some(1001)}

OnPageScoreSamples ==
    {Undefined, Some(-30), Some(0), Some(9), Some(10), Some(69), Some(70), Some(89), Some(90), Some(100), Some(110)}

TimeToInteractiveSamples ==
    {Undefined, Some(0), Some(1999), Some(2000), Some(2999), Some(3000), Some(4999), Some(5000)}

DomCompleteSamples == {Undefined, Some(0), Some(2500)}

DomainResult(rank, etv, count) == [rank |-> rank, etv |-> etv, count |-> count]

OnPageItem(score, tti, dom) == [onpage_score |-> score, time_to_interactive |-> tti, dom_complete |-> dom]

KeywordItem(keyword, rank, volume) == [keyword |-> keyword, rank_group |-> rank, search_volume |-> volume]

DefaultDomainAnswer == Ok(Some(DomainResult(Some(600), Some(1200), Some(150))))

DefaultOnPageAnswer == Ok(Some(OnPageItem(Some(85), Some(1500), Undefined)))

DefaultKeywordsAnswer == Ok(Some(<<KeywordItem(Some("geo audit"), Some(3), Some(900))>>))

DomainAnswers ==
    {HttpError, NetworkError, Ok(Undefined)}
    \cup {Ok(Some(DomainResult(r, Some(1200), Some(150)))) : r \in RankSamples}
    \cup {Ok(Some(DomainResult(Some(600), Undefined, k))) : k \in KeywordCountSamples}

OnPageAnswers ==
    {HttpError, NetworkError, Ok(Undefined)}
    \cup {Ok(Some(OnPageItem(s, Some(1500), Undefined))) : s \in OnPageScoreSamples}
    \cup {Ok(Some(OnPageItem(Some(85), t, d))) : t \in TimeToInteractiveSamples, d \in DomCompleteSamples}

KeywordsAnswers ==
    {HttpError, NetworkError, Ok(Undefined), Ok(Some(<<>>)), DefaultKeywordsAnswer,
     Ok(Some(<<KeywordItem(Some("geo audit"), Undefined, Undefined),
               KeywordItem(Some(""), Some(2), Some(50)),
               KeywordItem(Undefined, Some(1), Some(10)),
               KeywordItem(Some("seo"), Some(0), Some(0))>>))}

Answers(d, o, k) == [domain |-> d, onpage |-> o, keywords |-> k]

DefaultAnswers == Answers(DefaultDomainAnswer, DefaultOnPageAnswer, DefaultKeywordsAnswer)

FailedAnswers == Answers(HttpError, NetworkError, HttpError)

\* The posted url: absent (or empty), without a scheme, with either scheme.
UrlSamples ==
    { <<>>, <<"example.com">>, <<"www.", "example.com">>, <<"HTTP://", "example.com">>,
      <<"http://", "example.com">>, <<"https://", "www.", "example.com">> }

FetchOk == [ok |-> TRUE, isAxios |-> FALSE, code |-> "", status |-> 0]

FetchError(isAxios, code, status) == [ok |-> FALSE, isAxios |-> isAxios, code |-> code, status |-> status]

\* What axios.get does, route.ts:66-73.
FetchOutcomes ==
    { FetchOk,
      FetchError(TRUE, "ENOTFOUND", 0),
      FetchError(TRUE, "ERR_BAD_REQUEST", 403),
      FetchError(TRUE, "ERR_BAD_REQUEST", 404),
      FetchError(TRUE, "ETIMEDOUT", 0),
      FetchError(TRUE, "ECONNABORTED", 0),
      FetchError(TRUE, "ERR_BAD_RESPONSE", 500),
      FetchError(TRUE, "ECONNREFUSED", 0),
      FetchError(FALSE, "ENOTFOUND", 0) }

Scenario(url, fetch, doc, login, password, answers, adapterRejects) ==
    [url            |-> url,
     fetch          |-> fetch,
     doc            |-> doc,
     login          |-> login,
     password       |-> password,
     answers        |-> answers,
     adapterRejects |-> adapterRejects]

DefaultUrl == <<"https://", "www.", "example.com">>

Scenarios ==
    {Scenario(u, f, RichDoc, TRUE, TRUE, DefaultAnswers, FALSE) : u \in UrlSamples, f \in FetchOutcomes}
    \cup {Scenario(u, FetchOk, d, l, TRUE, DefaultAnswers, FALSE) :
            u \in UrlSamples, d \in BaseDocs, l \in BOOLEAN}
    \cup {Scenario(DefaultUrl, FetchOk, d, l, TRUE, a, FALSE) :
            d \in Documents, l \in BOOLEAN, a \in {DefaultAnswers, FailedAnswers}}
    \cup {Scenario(DefaultUrl, FetchOk, d, TRUE, TRUE, Answers(x, y, DefaultKeywordsAnswer), FALSE) :
            d \in {RichDoc, EmptyDoc}, x \in DomainAnswers, y \in OnPageAnswers}
    \cup {Scenario(DefaultUrl, FetchOk, SchemaLess, TRUE, TRUE, Answers(x, y, k), FALSE) :
            x \in {HttpError, Ok(Undefined), DefaultDomainAnswer},
            y \in {NetworkError, Ok(Undefined), DefaultOnPageAnswer},
            k \in KeywordsAnswers}
    \cup {Scenario(DefaultUrl, FetchOk, d, l, pw, a, r) :
            d \in {RichDoc, EmptyDoc}, l \in BOOLEAN, pw \in BOOLEAN,
            a \in {DefaultAnswers, FailedAnswers}, r \in BOOLEAN}

\* The request to the report delivery endpoint and what surrounds it.
\*   email, analysis   the fields of the body ("" and <<>>: missing)
\*   variant           "resend": send-report/route.ts:41-171, credentials
\*                     RESEND_API_KEY; "gmail": send-report/route.ts:373-417,
\*                     credentials GMAIL_USER and GMAIL_APP_PASSWORD
\*   renderFails       rendering the PDF or the HTML body throws
\*   delivery          what the email-delivery collaborator does: "ok",
\*                     "error" (resend returns {error}) or "throws"
ReportRequest(email, analysis, variant, key, user, password, renderFails, delivery) ==
    [posted        |-> TRUE,
     email         |-> email,
     analysis      |-> analysis,
     variant       |-> variant,
     apiKey        |-> key,
     gmailUser     |-> user,
     gmailPassword |-> password,
     renderFails   |-> renderFails,
     delivery      |-> delivery]

\* No request is posted to the report delivery endpoint.
NoReportRequest ==
    [ReportRequest("", Undefined, "resend", FALSE, FALSE, FALSE, FALSE, "ok") EXCEPT !.posted = FALSE]

EmailSamples == {"", "user@example.com"}

\* The analysis of a body: missing, an object without checks, an Analysis.
AnalysisSamples == {Undefined, Some([wellFormed |-> FALSE]), Some([wellFormed |-> TRUE])}

ReportRequests ==
    {ReportRequest(e, a, "resend", k, FALSE, FALSE, r, d) :
        e \in EmailSamples, a \in AnalysisSamples, k \in BOOLEAN, r \in BOOLEAN,
        d \in {"ok", "error", "throws"}}
    \cup {ReportRequest(e, a, "gmail", FALSE, u, pw, r, d) :
        e \in EmailSamples, a \in AnalysisSamples, u \in BOOLEAN, pw \in BOOLEAN, r \in BOOLEAN,
        d \in {"ok", "throws"}}

\* The analyze requests next to which a report request is posted.
DefaultScenario == Scenario(DefaultUrl, FetchOk, RichDoc, TRUE, TRUE, DefaultAnswers, FALSE)

----------------------------------------------------------------------------
(* The POST handler of the analyze endpoint, route.ts:51-606               *)

Init ==
    /\ env \in Scenarios
    /\ pc = "start"
    /\ normalizedUrl = <<>>
    /\ sub = [s \in SubRequests |-> "idle"]
    /\ metricsPromise = [st |-> "none", adapter |-> "none", value |-> Undefined]
    /\ checks = <<>>
    /\ pageTitle = 0
    /\ response = Undefined
    /\ renv \in (IF env = DefaultScenario THEN ReportRequests \cup {NoReportRequest} ELSE {NoReportRequest})
    /\ mail = [pc |-> "idle", invoked |-> 0, to |-> Undefined, response |-> Undefined]
    /\ lead = [email |-> "", submitted |-> FALSE]

\* route.ts:53-63: the url is read; a missing url is answered with 400.
ParseRequest ==
    /\ pc = "start"
    /\ IF env.url = <<>>
       THEN /\ response' = Some(ErrorResponse(400, "URL is required"))
            /\ pc' = "done"
            /\ UNCHANGED normalizedUrl
       ELSE /\ normalizedUrl' = NormalizeUrl(env.url)
            /\ pc' = "fetching"
            /\ UNCHANGED response
    /\ UNCHANGED <<env, renv, mail, lead, sub, metricsPromise, checks, pageTitle>>

\* route.ts:66-73 throws: the catch block answers, route.ts:586-605.
FetchFails ==
    /\ pc = "fetching"
    /\ ~env.fetch.ok
    /\ response' = Some(ErrorResponseFor(env.fetch))
    /\ pc' = "done"
    /\ UNCHANGED <<env, renv, mail, lead, normalizedUrl, sub, metricsPromise, checks, pageTitle>>

StartMetricsBeforeFetch ==
    /\ pc = "fetching"
    /\ IF Configured(env.login, env.password) /\ UrlParses(normalizedUrl)
       THEN /\ sub' = [s \in SubRequests |-> "pending"]
            /\ metricsPromise' = [st |-> "pending", adapter |-> "none", value |-> Undefined]
       ELSE /\ metricsPromise' =
                [st |-> "resolved", adapter |-> "fulfilled",
                 value |-> Some(getDataForSEOMetrics(env.login, env.password, normalizedUrl, env.answers))]
            /\ UNCHANGED sub
    /\ pc' = "evaluating"
    /\ UNCHANGED <<env, renv, mail, lead, normalizedUrl, checks, pageTitle, response>>

\* route.ts:75-83: the page is loaded and getDataForSEOMetrics is called.  The
\* call runs to its first await: without credentials it returns at once
\* (dataforseo.ts:187-192), with them the three sub-requests are sent
\* (dataforseo.ts:200-204).
StartMetrics ==
    /\ pc = "fetching"
    /\ env.fetch.ok
    /\ IF Configured(env.login, env.password) /\ UrlParses(normalizedUrl)
       THEN /\ sub' = [s \in SubRequests |-> "pending"]
            /\ metricsPromise' = [st |-> "pending", adapter |-> "none", value |-> Undefined]
       ELSE /\ metricsPromise' =
                [st |-> "resolved", adapter |-> "fulfilled",
                 value |-> Some(getDataForSEOMetrics(env.login, env.password, normalizedUrl, env.answers))]
            /\ UNCHANGED sub
    /\ pc' = "evaluating"
    /\ UNCHANGED <<env, renv, mail, lead, normalizedUrl, checks, pageTitle, response>>

\* The provider answers a sub-request (or the request fails), whatever the
\* handler is doing.
ProviderAnswers(s) ==
    /\ sub[s] = "pending"
    /\ sub' = [sub EXCEPT ![s] = "answered"]
    /\ UNCHANGED <<env, renv, mail, lead, pc, normalizedUrl, metricsPromise, checks, pageTitle, response>>

\* route.ts:85-470: the HTML-only checks, evaluated without an await.  A
\* TypeError of schemaTypes.some(...) is caught by route.ts:586.
EvaluateHtml ==
    /\ pc = "evaluating"
    /\ IF SchemaChecksThrow(env.doc)
       THEN /\ response' = Some(ErrorResponseFor(TypeError))
            /\ pc' = "done"
            /\ UNCHANGED <<checks, pageTitle>>
       ELSE /\ checks' = HtmlChecks(env.doc, normalizedUrl)
            /\ pageTitle' = env.doc.title
            /\ pc' = "awaiting"
            /\ UNCHANGED response
    /\ UNCHANGED <<env, renv, mail, lead, normalizedUrl, sub, metricsPromise>>

\* dataforseo.ts:200-214: Promise.all has the three results and the adapter
\* returns its record.
AdapterResolves ==
    /\ pc = "awaiting"
    /\ metricsPromise.st = "pending"
    /\ ~env.adapterRejects
    /\ \A s \in SubRequests : sub[s] = "answered"
    /\ metricsPromise' =
           [st |-> "resolved", adapter |-> "fulfilled",
            value |-> Some(getDataForSEOMetrics(env.login, env.password, normalizedUrl, env.answers))]
    /\ UNCHANGED <<env, renv, mail, lead, pc, normalizedUrl, sub, checks, pageTitle, response>>

\* route.ts:80-83: the adapter's promise rejects and .catch maps it to null.
AdapterRejects ==
    /\ pc = "awaiting"
    /\ metricsPromise.st = "pending"
    /\ env.adapterRejects
    /\ metricsPromise' = [st |-> "resolved", adapter |-> "rejected", value |-> Undefined]
    /\ UNCHANGED <<env, renv, mail, lead, pc, normalizedUrl, sub, checks, pageTitle, response>>

JoinBeforeResolved ==
    /\ pc = "awaiting"
    /\ LET seoMetrics == metricsPromise.value
           all        == checks \o MetricsChecks(seoMetrics)
       IN  /\ checks' = all
           /\ response' = Some(AnalysisResponse(Analysis(normalizedUrl, pageTitle, all, seoMetrics)))
    /\ pc' = "done"
    /\ UNCHANGED <<env, renv, mail, lead, normalizedUrl, sub, metricsPromise, pageTitle>>

JoinMetricsFirst ==
    /\ pc = "awaiting"
    /\ metricsPromise.st = "resolved"
    /\ LET seoMetrics == metricsPromise.value
           all        == MetricsChecks(seoMetrics) \o checks
       IN  /\ checks' = all
           /\ response' = Some(AnalysisResponse(Analysis(normalizedUrl, pageTitle, all, seoMetrics)))
    /\ pc' = "done"
    /\ UNCHANGED <<env, renv, mail, lead, normalizedUrl, sub, metricsPromise, pageTitle>>

\* route.ts:477-584: the await returns, the metrics-derived checks are
\* appended, the scores are aggregated and the Analysis is returned.
Join ==
    /\ pc = "awaiting"
    /\ metricsPromise.st = "resolved"
    /\ LET seoMetrics == metricsPromise.value
           all        == checks \o MetricsChecks(seoMetrics)
       IN  /\ checks' = all
           /\ response' = Some(AnalysisResponse(Analysis(normalizedUrl, pageTitle, all, seoMetrics)))
    /\ pc' = "done"
    /\ UNCHANGED <<env, renv, mail, lead, normalizedUrl, sub, metricsPromise, pageTitle>>

----------------------------------------------------------------------------
(* The LeadCapture form, page.tsx:594-633, rendered once the page holds an *)
(* Analysis (page.tsx:809)                                                 *)

\* The page holds the Analysis: setAnalysis(data), page.tsx:670.
AnalysisShown == pc = "done" /\ IsDefined(response) /\ IsDefined(Val(response).analysis)

\* onChange of the email input, page.tsx:618.
SetEmail ==
    /\ AnalysisShown
    /\ ~lead.submitted
    /\ \E e \in EmailSamples \ {lead.email} : lead' = [lead EXCEPT !.email = e]
    /\ UNCHANGED <<env, renv, mail, pc, normalizedUrl, sub, metricsPromise, checks, pageTitle, response>>

\* onSubmit of the form, page.tsx:598-602; the input is required, so the
\* browser submits the form only with an email.
HandleSubmit ==
    /\ AnalysisShown
    /\ ~lead.submitted
    /\ lead.email # ""
    /\ lead' = [lead EXCEPT !.submitted = TRUE]
    /\ UNCHANGED <<env, renv, mail, pc, normalizedUrl, sub, metricsPromise, checks, pageTitle, response>>

----------------------------------------------------------------------------
(* The POST handler of the report delivery endpoint,                       *)
(* send-report/route.ts:41-171 and 373-417                                 *)

\* NextResponse.json({ success: true, ... })
ReportSuccess == [status |-> 200, success |-> TRUE, error |-> ""]

\* NextResponse.json({ error }, { status })
ReportError(status, error) == [status |-> status, success |-> FALSE, error |-> error]

\* !resendApiKey, route.ts:51; !gmailUser || !gmailAppPassword, route.ts:386
DeliveryConfigured(r) ==
    IF r.variant = "resend" THEN r.apiKey ELSE r.gmailUser /\ r.gmailPassword

\* generatePDFReport and the body template (route.ts:59-142) or
\* generateEmailHTML (route.ts:400) throw: the analysis has no checks to
\* read, or the renderer fails.
RenderThrows(r) == ~Val(r.analysis).wellFormed \/ r.renderFails

\* route.ts:42-145 (375-404): the body is read and validated, the credentials
\* are looked up, the report is rendered and the collaborator is invoked.
ReceiveReport ==
    /\ renv.posted
    /\ mail.pc = "idle"
    /\ IF renv.email = "" \/ ~IsDefined(renv.analysis)
       THEN mail' = [mail EXCEPT !.pc = "done",
                                 !.response = Some(ReportError(400, "Email and analysis data required"))]
       ELSE IF ~DeliveryConfigured(renv)
       THEN mail' = [mail EXCEPT !.pc = "done",
                                 !.response = Some(ReportError(500, "Email service not configured"))]
       ELSE IF RenderThrows(renv)
       THEN mail' = [mail EXCEPT !.pc = "done",
                                 !.response = Some(ReportError(500, "Failed to send email"))]
       ELSE mail' = [mail EXCEPT !.pc = "sending", !.invoked = mail.invoked + 1, !.to = Some(renv.email)]
    /\ UNCHANGED <<env, renv, lead, pc, normalizedUrl, sub, metricsPromise, checks, pageTitle, response>>

DeliveryAnswersIgnoresError ==
    /\ mail.pc = "sending"
    /\ mail' = [mail EXCEPT !.pc = "done",
                            !.response = IF renv.delivery \in {"ok", "error"}
                                         THEN Some(ReportSuccess)
                                         ELSE Some(ReportError(500, "Failed to send email"))]
    /\ UNCHANGED <<env, renv, lead, pc, normalizedUrl, sub, metricsPromise, checks, pageTitle, response>>

\* route.ts:145-170 (404-416): the collaborator has answered.
DeliveryAnswers ==
    /\ mail.pc = "sending"
    /\ mail' = [mail EXCEPT !.pc = "done",
                            !.response = IF renv.delivery = "ok"
                                         THEN Some(ReportSuccess)
                                         ELSE Some(ReportError(500, "Failed to send email"))]
    /\ UNCHANGED <<env, renv, lead, pc, normalizedUrl, sub, metricsPromise, checks, pageTitle, response>>

Next ==
    \/ ParseRequest
    \/ FetchFails
    \/ StartMetrics
    \/ \E s \in SubRequests : ProviderAnswers(s)
    \/ EvaluateHtml
    \/ AdapterResolves
    \/ AdapterRejects
    \/ Join
    \/ SetEmail
    \/ HandleSubmit
    \/ ReceiveReport
    \/ DeliveryAnswers

Spec == Init /\ [][Next]_vars

\* A step of the analyze handler: the code between two awaits, or the
\* settling of the adapter's promise.
HandlerStep ==
    \/ ParseRequest
    \/ FetchFails
    \/ StartMetrics
    \/ EvaluateHtml
    \/ AdapterResolves
    \/ AdapterRejects
    \/ Join

\* The provider answers, or fails, one of the sub-requests in flight.
ProviderStep == \E s \in SubRequests : ProviderAnswers(s)

\* The event loop runs a handler step whenever one can run, and every
\* sub-request sent to the provider is eventually answered or fails.  Nothing
\* makes the visitor use the form, and nothing is required of the report
\* delivery endpoint.
Fairness ==
    /\ WF_vars(HandlerStep)
    /\ WF_vars(ProviderStep)

FairSpec == Spec /\ Fairness

----------------------------------------------------------------------------
(* Properties                                                              *)

\* The handler has returned an Analysis.
Returned == pc = "done" /\ IsDefined(response) /\ IsDefined(Val(response).analysis)

\* The Analysis returned.
Result == Val(Val(response).analysis)

\* What the adapter returned (null after a rejection).
AdapterResult == metricsPromise.value

RECURSIVE SeqSum(_)
SeqSum(s) == IF s = <<>> THEN 0 ELSE Head(s) + SeqSum(Tail(s))

Indices(cs) == 1..Len(cs)

HasCheck(cs, name) == \E i \in Indices(cs) : cs[i].name = name

CheckNamed(cs, name) == cs[CHOOSE i \in Indices(cs) : cs[i].name = name]

\* C1: in every Analysis returned, overallScore is the sum of the scores and
\* maxScore the sum of the maxScores of the final list of checks, the
\* metrics-derived checks included.
C1_ScoreSums ==
    Returned =>
        /\ Result.checks = checks
        /\ Result.overallScore = SeqSum([i \in Indices(Result.checks) |-> Result.checks[i].score])
        /\ Result.maxScore = SeqSum([i \in Indices(Result.checks) |-> Result.checks[i].maxScore])

\* An Analysis with the four metrics-derived checks, all of them scoring.
C1_Witness ==
    /\ Returned
    /\ Len(Result.checks) = 25
    /\ Result.maxScore = 119
    /\ \A i \in 22..25 : Result.checks[i].score > 0

\* C2: in every Analysis returned, summary.passed + summary.warnings +
\* summary.failed is the number of checks, and no check is counted twice.
C2_SummaryPartition ==
    Returned =>
        /\ Result.summary.passed + Result.summary.warnings + Result.summary.failed = Len(Result.checks)
        /\ \A i \in Indices(Result.checks) :
              LET c == Result.checks[i]
              IN  /\ ~(IsPassed(c) /\ IsFailed(c))
                  /\ ~(IsPassed(c) /\ IsWarning(c))
                  /\ ~(IsFailed(c) /\ IsWarning(c))

\* C3, as claimed: summary.passed counts the checks with passed = true,
\* summary.failed those with score = 0 and summary.warnings those with
\* 0 < score < maxScore.
C3_SummaryByScore ==
    Returned =>
        LET cs == Result.checks
        IN  /\ Result.summary.passed = Cardinality({i \in Indices(cs) : cs[i].passed})
            /\ Result.summary.failed = Cardinality({i \in Indices(cs) : cs[i].score = 0})
            /\ Result.summary.warnings =
                   Cardinality({i \in Indices(cs) : 0 < cs[i].score /\ cs[i].score < cs[i].maxScore})

\* C3, amended: summary.passed counts the checks with passed = true,
\* summary.failed the checks that are not passed and score 0, summary.warnings
\* the checks that are not passed and score more than 0; for the 21 HTML-only
\* checks these are the checks with score = maxScore, score = 0 and
\* 0 < score < maxScore.
C3_SummaryByPassed ==
    Returned =>
        LET cs == Result.checks
        IN  /\ Result.summary.passed = Cardinality({i \in Indices(cs) : cs[i].passed})
            /\ Result.summary.failed = Cardinality({i \in Indices(cs) : ~cs[i].passed /\ cs[i].score = 0})
            /\ Result.summary.warnings = Cardinality({i \in Indices(cs) : ~cs[i].passed /\ cs[i].score > 0})
            /\ \A i \in 1..21 :
                  /\ cs[i].passed <=> cs[i].score = cs[i].maxScore
                  /\ cs[i].score >= 0 /\ cs[i].score <= cs[i].maxScore

\* An Analysis whose Page Load Performance check is passed with score 0
\* (pageLoadTime = 0) and whose Domain Authority check is passed with 3/5.
C3_Witness ==
    /\ Returned
    /\ HasCheck(Result.checks, "Page Load Performance")
    /\ CheckNamed(Result.checks, "Page Load Performance").passed
    /\ CheckNamed(Result.checks, "Page Load Performance").score = 0
    /\ CheckNamed(Result.checks, "Domain Authority").passed
    /\ CheckNamed(Result.checks, "Domain Authority").score = 3

\* C4: every check of every Analysis has 0 <= score <= maxScore (the scores
\* of the model are integers by construction), whatever the provider returns.
C4_ScoreInRange ==
    Returned =>
        \A i \in Indices(Result.checks) :
            0 <= Result.checks[i].score /\ Result.checks[i].score <= Result.checks[i].maxScore

\* C5, as claimed: a check carries a recommendation iff score < maxScore, and
\* a check with partial credit carries one and is not passed.
C5_RecommendationIffBelowMax ==
    Returned =>
        \A i \in Indices(Result.checks) :
            LET c == Result.checks[i]
            IN  /\ IsDefined(c.recommendation) <=> c.score < c.maxScore
                /\ (0 < c.score /\ c.score < c.maxScore) => (IsDefined(c.recommendation) /\ ~c.passed)

\* C5, amended: a check carries a recommendation iff it is not passed, and
\* then score < maxScore, so that a check with score = maxScore never carries
\* one; for the 21 HTML-only checks passed means score = maxScore, so they
\* carry one iff score < maxScore.
C5_RecommendationIffNotPassed ==
    Returned =>
        \A i \in Indices(Result.checks) :
            LET c == Result.checks[i]
            IN  /\ IsDefined(c.recommendation) <=> ~c.passed
                /\ IsDefined(c.recommendation) => c.score < c.maxScore
                /\ i <= 21 => (IsDefined(c.recommendation) <=> c.score < c.maxScore)

\* An Analysis with a metrics-derived check that is passed with partial credit
\* and carries no recommendation, and an HTML-only check with partial credit.
C5_Witness ==
    /\ Returned
    /\ \E i \in 22..Len(Result.checks) :
          /\ Result.checks[i].passed
          /\ 0 < Result.checks[i].score /\ Result.checks[i].score < Result.checks[i].maxScore
          /\ ~IsDefined(Result.checks[i].recommendation)
    /\ \E i \in 1..21 :
          /\ ~Result.checks[i].passed
          /\ 0 < Result.checks[i].score /\ Result.checks[i].score < Result.checks[i].maxScore
          /\ IsDefined(Result.checks[i].recommendation)

\* The grade bands as the specification states them.
GradeBand(p) ==
    CASE p >= 90            -> "A+"
      [] p >= 80 /\ p <= 89 -> "A"
      [] p >= 70 /\ p <= 79 -> "B"
      [] p >= 60 /\ p <= 69 -> "C"
      [] p >= 50 /\ p <= 59 -> "D"
      [] p < 50             -> "F"

GradeRank(g) ==
    CASE g = "F" -> 0 [] g = "D" -> 1 [] g = "C" -> 2 [] g = "B" -> 3 [] g = "A" -> 4 [] g = "A+" -> 5

\* p is 100 * n / d rounded to the nearest integer, a half rounding up.
IsRounded(p, n, d) == (2 * p - 1) * d <= 200 * n /\ 200 * n < (2 * p + 1) * d

\* C6: the grade of every Analysis is getGrade(round(100 * overallScore /
\* maxScore)), and getGrade maps every percentage 0..100 to the grade of its
\* band and is monotonic.
C6_GradeOfPercentage ==
    /\ \A p \in 0..100 : getGrade(p) = GradeBand(p)
    /\ \A p \in 0..99 : GradeRank(getGrade(p)) <= GradeRank(getGrade(p + 1))
    /\ Returned =>
          /\ Result.maxScore > 0
          /\ \E p \in -100..200 :
                /\ IsRounded(p, Result.overallScore, Result.maxScore)
                /\ Result.grade = GradeBand(p)

\* An Analysis of 89 points of 100, graded A.
C6_Witness ==
    /\ Returned
    /\ Result.overallScore = 89 /\ Result.maxScore = 100
    /\ Result.grade = "A"

\* C7, as claimed: a metrics-derived check is in checks only if its metric is
\* defined in the adapter's result.
C7_CheckOnlyIfMetricDefined ==
    Returned =>
        LET has(name)    == HasCheck(Result.checks, name)
            metric(f)    == IsAvailable(AdapterResult) /\ IsDefined(Val(AdapterResult)[f])
        IN  /\ has("Domain Authority") => metric("domainRank")
            /\ has("Organic Search Visibility") => metric("organicKeywords")
            /\ has("Page Load Performance") => metric("pageLoadTime")
            /\ has("On-Page SEO Score") => metric("onPageScore")

\* C7, amended: Page Load Performance is in checks only if pageLoadTime is
\* defined and On-Page SEO Score only if onPageScore is defined; Domain
\* Authority and Organic Search Visibility are in checks exactly when the
\* adapter reports available = true, also with domainRank or organicKeywords
\* undefined: they then score 0 and raise maxScore by 5 each.
C7_ChecksOfAvailableMetrics ==
    Returned =>
        LET has(name)    == HasCheck(Result.checks, name)
            metric(f)    == IsAvailable(AdapterResult) /\ IsDefined(Val(AdapterResult)[f])
        IN  /\ has("Domain Authority") <=> IsAvailable(AdapterResult)
            /\ has("Organic Search Visibility") <=> IsAvailable(AdapterResult)
            /\ has("Page Load Performance") <=> metric("pageLoadTime")
            /\ has("On-Page SEO Score") <=> metric("onPageScore")
            /\ (IsAvailable(AdapterResult) /\ ~metric("domainRank")) =>
                   /\ CheckNamed(Result.checks, "Domain Authority").score = 0
                   /\ CheckNamed(Result.checks, "Domain Authority").maxScore = 5
            /\ (IsAvailable(AdapterResult) /\ ~metric("organicKeywords")) =>
                   /\ CheckNamed(Result.checks, "Organic Search Visibility").score = 0
                   /\ CheckNamed(Result.checks, "Organic Search Visibility").maxScore = 5
            /\ Result.maxScore = 100 + (IF IsAvailable(AdapterResult) THEN 10 ELSE 0)
                                     + (IF metric("pageLoadTime") THEN 4 ELSE 0)
                                     + (IF metric("onPageScore") THEN 5 ELSE 0)

\* The domain-rank sub-request failed, the adapter reports available = true,
\* and both checks are in the Analysis, which has maxScore 110.
C7_Witness ==
    /\ Returned
    /\ env.answers.domain.kind = "httpError"
    /\ IsAvailable(AdapterResult)
    /\ HasCheck(Result.checks, "Domain Authority")
    /\ HasCheck(Result.checks, "Organic Search Visibility")
    /\ Result.maxScore = 110

\* C8: the Organic Search Visibility score is 5, 4, 3, 2 for organicKeywords
\* above 1000, 500, 100, 10, and 1 for every other defined value; it is 0 only
\* if organicKeywords is undefined.
C8_VisibilityBands ==
    (Returned /\ HasCheck(Result.checks, "Organic Search Visibility")) =>
        LET k     == Val(AdapterResult).organicKeywords
            score == CheckNamed(Result.checks, "Organic Search Visibility").score
        IN  /\ IsDefined(k) =>
                  score = (CASE Val(k) > 1000 -> 5
                             [] Val(k) > 500 /\ Val(k) <= 1000 -> 4
                             [] Val(k) > 100 /\ Val(k) <= 500 -> 3
                             [] Val(k) > 10 /\ Val(k) <= 100 -> 2
                             [] OTHER -> 1)
            /\ score = 0 => ~IsDefined(k)

\* C9: whenever pageLoadTime is defined, Page Load Performance scores 4, 3, 2
\* for a pageLoadTime below 2000, 3000, 5000 and 1 otherwise.
C9_PerformanceBands ==
    (Returned /\ IsAvailable(AdapterResult) /\ IsDefined(Val(AdapterResult).pageLoadTime)) =>
        LET t == Val(Val(AdapterResult).pageLoadTime)
        IN  /\ HasCheck(Result.checks, "Page Load Performance")
            /\ CheckNamed(Result.checks, "Page Load Performance").score =
                   (CASE t < 2000 -> 4
                      [] t >= 2000 /\ t < 3000 -> 3
                      [] t >= 3000 /\ t < 5000 -> 2
                      [] OTHER -> 1)

\* C10: Analysis.seoMetrics is present iff the adapter returned available =
\* true; it is absent without credentials, when the adapter returned
\* available = false and when its promise rejected.
C10_SeoMetricsIffAvailable ==
    Returned =>
        /\ IsDefined(Result.seoMetrics) <=>
               (metricsPromise.adapter = "fulfilled" /\ Val(AdapterResult).available)
        /\ ~Configured(env.login, env.password) => ~IsDefined(Result.seoMetrics)
        /\ metricsPromise.adapter = "rejected" => ~IsDefined(Result.seoMetrics)
        /\ IsDefined(Result.seoMetrics) =>
               /\ Val(Result.seoMetrics).domainRank = Val(AdapterResult).domainRank
               /\ Val(Result.seoMetrics).pageLoadTime = Val(AdapterResult).pageLoadTime

\* An Analysis with seoMetrics, returned although every sub-request failed.
C10_Witness ==
    /\ Returned
    /\ IsDefined(Result.seoMetrics)
    /\ env.answers = FailedAnswers
    /\ ~IsDefined(Val(Result.seoMetrics).domainRank)

\* The adapter sent its three sub-requests and returned its record.
AdapterReturned ==
    /\ metricsPromise.adapter = "fulfilled"
    /\ \A s \in SubRequests : sub[s] = "answered"

\* A sub-request failed: an HTTP error, a network error or an empty result.
SubRequestFailed(resp) == resp.kind # "ok" \/ ~IsDefined(resp.result)

\* The fields of the adapter's record that a sub-request supplies.
Facet(r, s) ==
    CASE s = "domain"   -> <<r.domainRank, r.organicTraffic, r.organicKeywords>>
      [] s = "onpage"   -> <<r.onPageScore, r.pageLoadTime>>
      [] s = "keywords" -> <<r.topKeywords>>

\* The answers a sub-request can get.
AnswersOf(s) ==
    CASE s = "domain"   -> DomainAnswers
      [] s = "onpage"   -> OnPageAnswers
      [] s = "keywords" -> KeywordsAnswers

\* C11: the three sub-requests fail independently.  Whatever subset of them
\* fails, the adapter reports available = true, the facet of a failed
\* sub-request is undefined (an empty list for the keywords), the facet of
\* every other sub-request is what the provider supplied, and no facet
\* depends on the answer to another sub-request.
C11_SubRequestsFailIndependently ==
    AdapterReturned =>
        LET r == Val(AdapterResult)
            a == env.answers
        IN  /\ r.available
            /\ IF SubRequestFailed(a.domain)
               THEN Facet(r, "domain") = <<Undefined, Undefined, Undefined>>
               ELSE Facet(r, "domain") = <<Val(a.domain.result).rank, Val(a.domain.result).etv,
                                           Val(a.domain.result).count>>
            /\ IF SubRequestFailed(a.onpage)
               THEN Facet(r, "onpage") = <<Undefined, Undefined>>
               ELSE /\ r.onPageScore = Val(a.onpage.result).onpage_score
                    /\ r.pageLoadTime \in {Val(a.onpage.result).time_to_interactive,
                                           Val(a.onpage.result).dom_complete}
            /\ IF SubRequestFailed(a.keywords)
               THEN r.topKeywords = Some(<<>>)
               ELSE LET items == Val(a.keywords.result)
                        named == {i \in 1..Len(items) : IsDefined(items[i].keyword) /\ Val(items[i].keyword) # ""}
                        kws   == Val(r.topKeywords)
                    IN  /\ Len(kws) = Cardinality(named)
                        /\ \A j \in 1..Len(kws) : \E i \in named : kws[j].keyword = Val(items[i].keyword)
            /\ \A s \in SubRequests : \A x \in AnswersOf(s) :
                  LET r2 == getDataForSEOMetrics(env.login, env.password, normalizedUrl, [a EXCEPT ![s] = x])
                  IN  /\ r2.available
                      /\ \A t \in SubRequests \ {s} : Facet(r2, t) = Facet(r, t)

\* The domain overview failed with an HTTP error and the keywords with a
\* network error; the on-page facet is returned and available is true.
C11_Witness ==
    /\ AdapterReturned
    /\ env.answers.domain.kind = "httpError"
    /\ env.answers.keywords.kind = "networkError"
    /\ Val(AdapterResult).available
    /\ Val(AdapterResult).onPageScore = Some(85)
    /\ Val(AdapterResult).pageLoadTime = Some(1500)
    /\ Val(AdapterResult).domainRank = Undefined
    /\ Val(AdapterResult).topKeywords = Some(<<>>)

\* C12: without one of the credentials the adapter returns available = false
\* with an error and sends no sub-request; with both credentials and every
\* sub-request failed it returns available = true, the five metrics
\* undefined, an empty topKeywords and no error.
C12_NotConfiguredOrNoData ==
    /\ ~(env.login /\ env.password) => \A s \in SubRequests : sub[s] = "idle"
    /\ (metricsPromise.adapter = "fulfilled" /\ ~(env.login /\ env.password)) =>
          /\ ~Val(AdapterResult).available
          /\ IsDefined(Val(AdapterResult).error)
    /\ (AdapterReturned /\ \A s \in SubRequests : SubRequestFailed(env.answers[s])) =>
          LET r == Val(AdapterResult)
          IN  /\ env.login /\ env.password
              /\ r.available
              /\ r.domainRank = Undefined /\ r.organicTraffic = Undefined /\ r.organicKeywords = Undefined
              /\ r.onPageScore = Undefined /\ r.pageLoadTime = Undefined
              /\ r.topKeywords = Some(<<>>)
              /\ ~IsDefined(r.error)

\* The login is configured and the password is not: the adapter has returned
\* available = false with its error and no sub-request was sent.
C12_Witness ==
    /\ env.login /\ ~env.password
    /\ metricsPromise.adapter = "fulfilled"
    /\ ~Val(AdapterResult).available
    /\ Val(AdapterResult).error = Some("DataForSEO credentials not configured")
    /\ \A s \in SubRequests : sub[s] = "idle"
    /\ pc = "done"

\* The handler answered with an error.
Failed == pc = "done" /\ IsDefined(response) /\ ~IsDefined(Val(response).analysis)

\* C13: the first 21 checks of every Analysis are the HTML-only checks of the
\* document and the normalized url, whatever the credentials, the provider's
\* answers and the fate of the adapter's promise; they are computed while the
\* sub-requests are pending; and an error response is due to the url, the
\* page fetch or the document, never to the credentials or the provider.
C13_HtmlChecksIgnoreMetrics ==
    /\ pc = "awaiting" => checks = HtmlChecks(env.doc, NormalizeUrl(env.url))
    /\ Returned =>
          /\ Len(Result.checks) >= 21
          /\ SubSeq(Result.checks, 1, 21) = HtmlChecks(env.doc, NormalizeUrl(env.url))
    /\ Failed => (env.url = <<>> \/ ~env.fetch.ok \/ SchemaChecksThrow(env.doc))
    /\ (pc = "done" /\ env.url # <<>> /\ env.fetch.ok /\ ~SchemaChecksThrow(env.doc)) => Returned

\* The adapter's promise rejected and the Analysis holds the 21 HTML-only
\* checks of the document.
C13_Witness ==
    /\ Returned
    /\ metricsPromise.adapter = "rejected"
    /\ env.doc = RichDoc
    /\ Result.checks = HtmlChecks(env.doc, NormalizeUrl(env.url))
    /\ Result.overallScore = 100

\* The failures of the page fetch that the endpoint recognizes.
FetchFailureClass(f) ==
    CASE f.isAxios /\ f.code = "ENOTFOUND"                  -> "dns"
      [] f.isAxios /\ f.status = 403                        -> "forbidden"
      [] f.isAxios /\ f.status = 404                        -> "notFound"
      [] f.isAxios /\ f.code \in {"ETIMEDOUT", "ECONNABORTED"} -> "timeout"
      [] OTHER                                              -> "other"

GenericError == ErrorResponse(500, "Failed to analyze the URL. Please try again.")

\* C14: a missing url is answered with 400; a page fetch that fails with a
\* DNS error, 403, 404 or a timeout with 400 and the message of its class;
\* every other failure with 500 and the generic message; and an Analysis is
\* returned only when the page fetch succeeded.
C14_ErrorClassification ==
    /\ (pc = "done" /\ env.url = <<>>) => response = Some(ErrorResponse(400, "URL is required"))
    /\ (pc = "done" /\ env.url # <<>> /\ ~env.fetch.ok) =>
          LET class == FetchFailureClass(env.fetch)
              r     == Val(response)
          IN  /\ Failed
              /\ class = "dns" =>
                    r = ErrorResponse(400, "Domain not found. Please check the URL.")
              /\ class = "forbidden" =>
                    r = ErrorResponse(400, "Access denied by the website. The site may be blocking automated requests.")
              /\ class = "notFound" =>
                    r = ErrorResponse(400, "Page not found (404). Please check the URL.")
              /\ class = "timeout" =>
                    r = ErrorResponse(400, "Request timed out. The website may be slow or unavailable.")
              /\ class = "other" => r = GenericError
    /\ (Failed /\ env.url # <<>> /\ env.fetch.ok) => Val(response) = GenericError
    /\ Failed => Val(response).status \in {400, 500}
    /\ Returned => (env.fetch.ok /\ env.url # <<>> /\ Val(response).status = 200)

\* The page fetch was aborted by the timeout and the endpoint answered 400
\* with the timeout message.
C14_Witness ==
    /\ Failed
    /\ env.fetch = FetchError(TRUE, "ECONNABORTED", 0)
    /\ Val(response) = ErrorResponse(400, "Request timed out. The website may be slow or unavailable.")

\* C15: whenever the page fetch succeeds the endpoint answers with an
\* Analysis, whatever the JSON-LD blocks of the page hold (unparseable text,
\* null, a value that is not an object, an @type that is not a string, an
\* @graph that is not an array).
C15_JsonLdNeverSurfaces ==
    (pc = "done" /\ env.url # <<>> /\ env.fetch.ok) =>
        /\ Returned
        /\ Val(response).status = 200

\* The document has no JSON-LD block that parses.
NoParsedBlock(doc) == \A i \in 1..Len(doc.jsonLd) : doc.jsonLd[i].content # "json"

\* C16: in every Analysis, FAQ Schema, Article/HowTo Schema and
\* Author/Organization Schema score more than 0 only if JSON-LD Schema Present
\* scores 8 of 8; without a JSON-LD block that parses, the four schema checks
\* score 0 and are not passed.
C16_SchemaChecksNeedJsonLd ==
    Returned =>
        LET cs == Result.checks
        IN  /\ cs[1].name = "JSON-LD Schema Present" /\ cs[1].maxScore = 8
            /\ cs[2].name = "FAQ Schema"
            /\ cs[3].name = "Article/HowTo Schema"
            /\ cs[4].name = "Author/Organization Schema"
            /\ (\E i \in 2..4 : cs[i].score # 0) => cs[1].score = 8
            /\ NoParsedBlock(env.doc) => \A i \in 1..4 : cs[i].score = 0 /\ ~cs[i].passed

\* A page whose first JSON-LD block is a FAQPage and whose second block does
\* not parse: FAQ Schema scores 7 and JSON-LD Schema Present 8.
C16_Witness ==
    /\ Returned
    /\ Len(env.doc.jsonLd) = 2
    /\ env.doc.jsonLd[1].content = "json"
    /\ env.doc.jsonLd[2].content = "malformed"
    /\ Result.checks[2].score = 7
    /\ Result.checks[1].score = 8

\* The number of headings of a level in the document.
CountLevel(doc, level) == Cardinality({i \in DOMAIN doc.headings : doc.headings[i].level = level})

\* C17: Heading Hierarchy scores 5 of 5 and is passed exactly with one h1 and
\* at least two h2, scores 3 and is not passed exactly with one h1 and fewer
\* than two h2, and scores 0 with any other number of h1, whatever the h2.
C17_HeadingHierarchyBands ==
    Returned =>
        LET c  == CheckNamed(Result.checks, "Heading Hierarchy")
            h1 == CountLevel(env.doc, 1)
            h2 == CountLevel(env.doc, 2)
        IN  /\ c.maxScore = 5
            /\ (c.score = 5 /\ c.passed) <=> (h1 = 1 /\ h2 >= 2)
            /\ (c.score = 3 /\ ~c.passed) <=> (h1 = 1 /\ h2 < 2)
            /\ h1 # 1 => (c.score = 0 /\ ~c.passed)
            /\ c.score \in {0, 3, 5}

\* A page with two h1 and two h2: Heading Hierarchy scores 0.
C17_Witness ==
    /\ Returned
    /\ CountLevel(env.doc, 1) = 2
    /\ CountLevel(env.doc, 2) = 2
    /\ CheckNamed(Result.checks, "Heading Hierarchy").score = 0
    /\ ~CheckNamed(Result.checks, "Heading Hierarchy").passed

\* The score of a check with a length band [lo, hi]: 4 inside the band, 2 for
\* any other length above 0, 0 for an empty or missing text.
LengthBandScore(length, lo, hi) ==
    IF lo <= length /\ length <= hi THEN 4 ELSE IF length > 0 THEN 2 ELSE 0

\* C18: Meta Description scores 4 iff its length is in [120, 160], both
\* bounds included, 2 iff it is not empty with a length outside of the band,
\* and 0 iff it is empty or missing; Page Title Optimization does the same
\* with the band [30, 60].
C18_InclusiveLengthBands ==
    Returned =>
        LET meta   == CheckNamed(Result.checks, "Meta Description")
            title  == CheckNamed(Result.checks, "Page Title Optimization")
            mLen   == IF env.doc.metaDescription = Undefined THEN 0 ELSE Val(env.doc.metaDescription)
            tLen   == env.doc.title
        IN  /\ meta.score = LengthBandScore(mLen, 120, 160)
            /\ meta.passed <=> meta.score = 4
            /\ meta.maxScore = 4
            /\ title.score = LengthBandScore(tLen, 30, 60)
            /\ title.passed <=> title.score = 4
            /\ title.maxScore = 4

\* A page with a meta description of 160 characters, which scores 4.
C18_Witness ==
    /\ Returned
    /\ env.doc.metaDescription = Some(160)
    /\ CheckNamed(Result.checks, "Meta Description").score = 4
    /\ CheckNamed(Result.checks, "Meta Description").passed
    /\ CheckNamed(Result.checks, "Page Title Optimization").score = 4

\* The paragraphs of the document with more than 20 characters once trimmed.
Qualifying(doc) == {i \in DOMAIN doc.paragraphs : doc.paragraphs[i].trimmed > 20}

RECURSIVE TotalLength(_, _)
\* The summed length of the paragraphs of the document with an index in S.
TotalLength(doc, S) ==
    IF S = {} THEN 0
    ELSE LET i == CHOOSE j \in S : TRUE
         IN  doc.paragraphs[i].len + TotalLength(doc, S \ {i})

\* C19: Paragraph Length scores 4 and is passed iff the mean length of the
\* paragraphs of more than 20 characters is below 500, scores 2 iff that mean
\* is at least 500 and below 700, and scores 0 otherwise, in particular for a
\* document without any such paragraph.
C19_ParagraphLengthBands ==
    Returned =>
        LET c     == CheckNamed(Result.checks, "Paragraph Length")
            n     == Cardinality(Qualifying(env.doc))
            total == TotalLength(env.doc, Qualifying(env.doc))
            full    == n > 0 /\ total < 500 * n
            partial == n > 0 /\ total >= 500 * n /\ total < 700 * n
        IN  /\ (c.score = 4 /\ c.passed) <=> full
            /\ c.score = 2 <=> partial
            /\ (~full /\ ~partial) => c.score = 0

\* The url posted to the endpoint starts with a scheme the handler knows.
HasScheme(url) == url # <<>> /\ url[1] \in {"http://", "https://"}

\* C20: a url that starts with neither http:// nor https:// is prefixed with
\* https://, any other url is left as it is; the normalized url starts with
\* one of the two, normalizing is idempotent, and HTTPS Security scores 2 iff
\* the normalized url starts with https://, so every url posted without a
\* scheme scores 2 of 2.
C20_SchemeDefaulted ==
    /\ \A u \in UrlSamples :
          LET n == NormalizeUrl(u)
          IN  /\ HasScheme(n)
              /\ NormalizeUrl(n) = n
              /\ HasScheme(u) => n = u
              /\ ~HasScheme(u) => n = <<"https://">> \o u
    /\ (pc # "start" /\ env.url # <<>>) =>
          /\ HasScheme(normalizedUrl)
          /\ normalizedUrl = (IF HasScheme(env.url) THEN env.url ELSE <<"https://">> \o env.url)
    /\ Returned =>
          LET c == CheckNamed(Result.checks, "HTTPS Security")
          IN  /\ c.maxScore = 2
              /\ c.score = 2 <=> normalizedUrl[1] = "https://"
              /\ c.score \in {0, 2}
              /\ ~HasScheme(env.url) => c.score = 2

\* A url posted without a scheme: the page was analyzed as https://example.com
\* and HTTPS Security scores 2.
C20_Witness ==
    /\ Returned
    /\ env.url = <<"example.com">>
    /\ normalizedUrl = <<"https://", "example.com">>
    /\ Result.url = normalizedUrl
    /\ CheckNamed(Result.checks, "HTTPS Security").score = 2

\* The names and categories of the HTML-only checks, in their order.
HtmlCheckNames ==
    << "JSON-LD Schema Present", "FAQ Schema", "Article/HowTo Schema", "Author/Organization Schema",
       "Question-Based Headings", "Heading Hierarchy", "Structured Lists", "Paragraph Length",
       "Quick Summary / Key Takeaways",
       "Author Attribution", "Author Bio/Credentials", "External Citations", "Publication Date",
       "Meta Description", "Page Title Optimization", "Mobile Viewport", "Canonical URL", "HTTPS Security",
       "Definition-Style Content", "Step-by-Step Instructions", "Statistics & Data Points" >>

HtmlCheckCategory(i) ==
    IF i <= 4 THEN "Schema Markup"
    ELSE IF i <= 9 THEN "Content Structure"
    ELSE IF i <= 13 THEN "E-E-A-T Signals"
    ELSE IF i <= 18 THEN "Meta & Technical"
    ELSE "AI Snippet Optimization"

\* The names of the metrics-derived checks, in their order.
MetricsCheckNames ==
    << "Domain Authority", "Organic Search Visibility", "Page Load Performance", "On-Page SEO Score" >>

\* The place of a name in MetricsCheckNames, 0 for any other name.
MetricsRank(name) ==
    IF \E k \in 1..4 : MetricsCheckNames[k] = name
    THEN CHOOSE k \in 1..4 : MetricsCheckNames[k] = name
    ELSE 0

\* C21: the first 21 checks are the HTML-only checks in the order Schema
\* Markup (4), Content Structure (5), E-E-A-T Signals (4), Meta & Technical
\* (5), AI Snippet Optimization (3), none skipped; the metrics-derived checks
\* come after them in the order Domain Authority, Organic Search Visibility,
\* Page Load Performance, On-Page SEO Score, whenever the provider answers.
C21_FixedOrder ==
    /\ pc \in {"start", "fetching", "evaluating"} => checks = <<>>
    /\ pc = "awaiting" =>
          /\ Len(checks) = 21
          /\ \A i \in 1..21 : checks[i].name = HtmlCheckNames[i]
    /\ Returned =>
          LET cs == Result.checks
          IN  /\ Len(cs) >= 21 /\ Len(cs) <= 25
              /\ \A i \in 1..21 :
                    /\ cs[i].name = HtmlCheckNames[i]
                    /\ cs[i].category = HtmlCheckCategory(i)
              /\ \A i \in 22..Len(cs) : MetricsRank(cs[i].name) > 0
              /\ \A i, j \in 22..Len(cs) : i < j => MetricsRank(cs[i].name) < MetricsRank(cs[j].name)

\* An Analysis with the 21 HTML-only checks followed by the four
\* metrics-derived checks.
C21_Witness ==
    /\ Returned
    /\ Len(Result.checks) = 25
    /\ [i \in 1..21 |-> Result.checks[i].name] = HtmlCheckNames
    /\ [i \in 1..4 |-> Result.checks[21 + i].name] = MetricsCheckNames

\* The metrics snapshot of a request: what the adapter's promise settles to
\* (null after a rejection), given the credentials and the provider's answers.
MetricsSnapshot ==
    LET url == NormalizeUrl(env.url)
    IN  IF Configured(env.login, env.password) /\ UrlParses(url) /\ env.adapterRejects
        THEN Undefined
        ELSE Some(getDataForSEOMetrics(env.login, env.password, url, env.answers))

\* C22: the Analysis is a function of the document, the normalized url and the
\* metrics snapshot: the same three give the same checks, in the same order
\* and with the same fields, and the same overallScore, maxScore, grade and
\* summary, whatever the order in which the steps of the request were taken.
C22_Deterministic ==
    Returned =>
        LET url == NormalizeUrl(env.url)
            cs  == HtmlChecks(env.doc, url) \o MetricsChecks(MetricsSnapshot)
        IN  /\ Result.checks = cs
            /\ Result.overallScore = TotalScore(cs)
            /\ Result.maxScore = TotalMaxScore(cs)
            /\ Result.grade = getGrade(Percentage(TotalScore(cs), TotalMaxScore(cs)))
            /\ Result.summary = Summary(cs)
            /\ Result = Analysis(url, env.doc.title, cs, MetricsSnapshot)

\* An Analysis with metrics-derived checks, returned after the three
\* sub-requests were answered, that is the Analysis of its inputs.
C22_Witness ==
    /\ Returned
    /\ IsAvailable(MetricsSnapshot)
    /\ \A s \in SubRequests : sub[s] = "answered"
    /\ Len(Result.checks) > 21
    /\ Result = Analysis(normalizedUrl, env.doc.title,
                         HtmlChecks(env.doc, normalizedUrl) \o MetricsChecks(MetricsSnapshot), MetricsSnapshot)

\* The report delivery endpoint has answered.
ReportAnswered == mail.pc = "done" /\ IsDefined(mail.response)

\* The body of the report request lacks the email or the analysis.
BodyIncomplete == renv.email = "" \/ renv.analysis = Undefined

\* C23: the report delivery endpoint answers {success: true} iff the
\* email-delivery collaborator was invoked and reported no error.  The
\* collaborator is not invoked when the email or the analysis is missing (400,
\* also without credentials) nor when the credentials are absent (500 'Email
\* service not configured'); a delivery error and any exception, of the
\* rendering included, give 500 and no success.
C23_SuccessIffDelivered ==
    /\ mail.invoked \in {0, 1}
    /\ ReportAnswered =>
          /\ Val(mail.response).success <=> (mail.invoked = 1 /\ renv.delivery = "ok")
          /\ Val(mail.response).success <=> Val(mail.response).status = 200
          /\ Val(mail.response).status \in {200, 400, 500}
    /\ (renv.posted /\ BodyIncomplete) =>
          /\ mail.invoked = 0
          /\ ReportAnswered => mail.response = Some(ReportError(400, "Email and analysis data required"))
    /\ (renv.posted /\ ~BodyIncomplete /\ ~DeliveryConfigured(renv)) =>
          /\ mail.invoked = 0
          /\ ReportAnswered => mail.response = Some(ReportError(500, "Email service not configured"))
    /\ (renv.posted /\ ~BodyIncomplete /\ DeliveryConfigured(renv) /\ ReportAnswered) =>
          /\ (renv.renderFails \/ ~Val(renv.analysis).wellFormed) =>
                (mail.invoked = 0 /\ mail.response = Some(ReportError(500, "Failed to send email")))
          /\ (mail.invoked = 1 /\ renv.delivery # "ok") =>
                mail.response = Some(ReportError(500, "Failed to send email"))
    /\ mail.invoked = 1 => mail.to = Some(renv.email)

\* The collaborator was invoked once, reported no error, and the endpoint
\* answered {success: true}.
C23_Witness ==
    /\ ReportAnswered
    /\ mail.invoked = 1
    /\ renv.delivery = "ok"
    /\ mail.response = Some(ReportSuccess)
    /\ mail.to = Some("user@example.com")

\* The maxScore of a metrics-derived check, by its name.
MetricsMaxScore(name) == IF name = "Page Load Performance" THEN 4 ELSE 5

\* C24: maxScore is positive in every Analysis: it is 100 without a
\* metrics-derived check and otherwise 100 plus the maxScores (5, 5, 4, 5) of
\* the metrics-derived checks that are included; the list of checks is never
\* empty, and the percentage is a number.
C24_MaxScorePositive ==
    Returned =>
        LET cs      == Result.checks
            derived == {i \in Indices(cs) : MetricsRank(cs[i].name) > 0}
        IN  /\ Len(cs) > 0
            /\ Result.maxScore > 0
            /\ derived = {} => Result.maxScore = 100
            /\ \A i \in derived : cs[i].maxScore = MetricsMaxScore(cs[i].name)
            /\ Result.maxScore =
                   100 + 5 * Cardinality({i \in derived : cs[i].name # "Page Load Performance"})
                       + 4 * Cardinality({i \in derived : cs[i].name = "Page Load Performance"})
            /\ Result.maxScore \in {100, 110, 114, 115, 119}
            /\ Result.grade \in {"A+", "A", "B", "C", "D", "F"}

\* An Analysis with Domain Authority, Organic Search Visibility and Page Load
\* Performance but no On-Page SEO Score: maxScore is 114.
C24_Witness ==
    /\ Returned
    /\ Len(Result.checks) = 24
    /\ HasCheck(Result.checks, "Page Load Performance")
    /\ ~HasCheck(Result.checks, "On-Page SEO Score")
    /\ Result.maxScore = 114

MalformedBlock == [content |-> "malformed"]

\* The blocks with a malformed block put after the first k of them.
WithMalformedAt(blocks, k) ==
    SubSeq(blocks, 1, k) \o <<MalformedBlock>> \o SubSeq(blocks, k + 1, Len(blocks))

\* The blocks that are not malformed, in their order.
WellFormedBlocks(blocks) == SelectSeq(blocks, LAMBDA b : b # MalformedBlock)

\* What route.ts:96-117 collects from all the blocks.
Collected(blocks) == CollectSchema(blocks, Len(blocks))

\* C25: malformed JSON-LD blocks are skipped one by one.  The schema types
\* collected from a sequence of blocks are those collected from its
\* well-formed blocks alone, and do not change when a malformed block is put
\* before, between or after them; JSON-LD Schema Present is passed iff some
\* block has content that parses.
C25_MalformedBlocksSkipped ==
    LET blocks == env.doc.jsonLd
    IN  /\ Collected(blocks) = Collected(WellFormedBlocks(blocks))
        /\ \A k \in 0..Len(blocks) : Collected(WithMalformedAt(blocks, k)) = Collected(blocks)
        /\ Collected(blocks).hasSchema <=> \E i \in DOMAIN blocks : blocks[i].content = "json"
        /\ Returned =>
              /\ Result.checks[1].name = "JSON-LD Schema Present"
              /\ Result.checks[1].passed <=> \E i \in DOMAIN blocks : blocks[i].content = "json"
              /\ Result.checks[1].score = (IF Result.checks[1].passed THEN 8 ELSE 0)
              /\ Result.checks[1].details.args = TypeTexts(Collected(WellFormedBlocks(blocks)).schemaTypes)

\* A page whose first JSON-LD block is malformed and whose second block is a
\* FAQPage: the type is collected and both checks are passed.
C25_Witness ==
    /\ Returned
    /\ Len(env.doc.jsonLd) = 2
    /\ env.doc.jsonLd[1] = MalformedBlock
    /\ env.doc.jsonLd[2].content = "json"
    /\ Result.checks[1].passed
    /\ Result.checks[2].passed

\* The analyze handler has answered.
Answered == pc = "done" /\ IsDefined(response)

\* C26: every analyze request is eventually answered, with one response that
\* is never replaced; and once the page fetch has succeeded (the handler
\* evaluates the page) the request returns an Analysis, whatever the metrics
\* branch does, as long as every sub-request is eventually answered or fails.
C26_EventuallyAnswered ==
    /\ <>Answered
    /\ [](pc = "evaluating" => <>Returned)
    /\ [][IsDefined(response) => response' = response]_vars
    /\ [](IsDefined(response) <=> pc = "done")

\* No sub-request has been sent to the provider.
NoneIssued == \A s \in SubRequests : sub[s] = "idle"

\* A step that sends sub-request s to the provider.
Issues(s) == sub[s] # "pending" /\ sub'[s] = "pending"

\* C27: no provider sub-request is issued before the page fetch has succeeded,
\* none at all when the url is missing or the page fetch fails, and each of the
\* three sub-requests is issued at most once: only a sub-request never sent
\* before is sent, and an answered or failed one stays as it is.
C27_ProviderRequestsOrdered ==
    /\ [](pc \in {"start", "fetching"} => NoneIssued)
    /\ []((env.url = <<>> \/ ~env.fetch.ok) => NoneIssued)
    /\ [][\A s \in SubRequests :
            /\ Issues(s) => (sub[s] = "idle" /\ pc = "fetching" /\ env.fetch.ok)
            /\ sub[s] = "answered" => sub'[s] = "answered"]_vars

\* A request whose three sub-requests were sent and answered, one of them
\* with a failure, and that returned its Analysis.
C27_Witness ==
    /\ Returned
    /\ \A s \in SubRequests : sub[s] = "answered"
    /\ SubRequestFailed(env.answers.domain)
    /\ ~SubRequestFailed(env.answers.onpage)

\* C28: the seoMetrics block of an Analysis and its metrics-derived checks
\* agree.  The block is present iff Domain Authority and Organic Search
\* Visibility are both in checks; without the block there are exactly 21
\* checks and maxScore is 100; Page Load Performance is in checks iff the
\* block's pageLoadTime is defined and On-Page SEO Score iff its onPageScore
\* is defined.
C28_SeoMetricsConsistent ==
    Returned =>
        LET has(name)  == HasCheck(Result.checks, name)
            block      == Result.seoMetrics
            field(f)   == IsDefined(block) /\ IsDefined(Val(block)[f])
        IN  /\ IsDefined(block) <=>
                   (has("Domain Authority") /\ has("Organic Search Visibility"))
            /\ ~IsDefined(block) => (Len(Result.checks) = 21 /\ Result.maxScore = 100)
            /\ has("Page Load Performance") <=> field("pageLoadTime")
            /\ has("On-Page SEO Score") <=> field("onPageScore")

\* An Analysis with the block, whose on-page sub-request failed: Domain
\* Authority and Organic Search Visibility are in checks, the two on-page
\* checks are not.
C28_Witness ==
    /\ Returned
    /\ IsDefined(Result.seoMetrics)
    /\ IsDefined(Val(Result.seoMetrics).domainRank)
    /\ ~IsDefined(Val(Result.seoMetrics).pageLoadTime)
    /\ ~IsDefined(Val(Result.seoMetrics).onPageScore)
    /\ Len(Result.checks) = 23
    /\ HasCheck(Result.checks, "Domain Authority")

\* page.tsx:29-35 and 421-427, part_000:187-193: the categories the UI and
\* the PDF report show.
Categories ==
    {"Schema Markup", "Content Structure", "E-E-A-T Signals", "Meta & Technical",
     "AI Snippet Optimization"}

\* checks.filter(c => c.category === category.name), page.tsx:506
CategoryChecks(cs, category) == SelectSeq(cs, LAMBDA c : c.category = category)

\* page.tsx:507
CategoryScore(cs, category) ==
    LET categoryChecks == CategoryChecks(cs, category)
    IN  SumOver(Scores(categoryChecks), Len(categoryChecks))

\* page.tsx:508
CategoryMax(cs, category) ==
    LET categoryChecks == CategoryChecks(cs, category)
    IN  SumOver(MaxScores(categoryChecks), Len(categoryChecks))

\* Not a number: no value.
NaN == Undefined

\* Math.round((categoryScore / categoryMax) * 100), page.tsx:509, computed
\* without a guard: with no check in the category 0 / 0 is NaN.
CategoryPercentage(cs, category) ==
    IF CategoryMax(cs, category) = 0
    THEN NaN
    ELSE Some(MathRound(100 * CategoryScore(cs, category), CategoryMax(cs, category)))

\* C29: in every Analysis each of the five categories has at least one check
\* and a positive category maxScore, and every check's category is one of the
\* five, so the percentage the UI computes per category is a number.
C29_CategoriesNonEmpty ==
    Returned =>
        LET cs == Result.checks
        IN  /\ \A category \in Categories :
                  /\ Len(CategoryChecks(cs, category)) >= 1
                  /\ CategoryMax(cs, category) > 0
                  /\ CategoryPercentage(cs, category) # NaN
            /\ \A i \in Indices(cs) : cs[i].category \in Categories
            /\ SumOver([i \in 1..5 |-> CategoryMax(cs,
                   <<"Schema Markup", "Content Structure", "E-E-A-T Signals",
                     "Meta & Technical", "AI Snippet Optimization">>[i])], 5) = Result.maxScore

\* An Analysis with the four metrics-derived checks: E-E-A-T Signals and
\* Meta & Technical hold two more checks each than without them.
C29_Witness ==
    /\ Returned
    /\ Len(Result.checks) = 25
    /\ Len(CategoryChecks(Result.checks, "E-E-A-T Signals")) = 6
    /\ Len(CategoryChecks(Result.checks, "Meta & Technical")) = 7
    /\ CategoryMax(Result.checks, "Meta & Technical") > 9

\* The report delivery endpoint received a request carrying this email and
\* answered it with success.
ReportDeliveredTo(email) ==
    /\ renv.posted
    /\ renv.email = email
    /\ IsDefined(renv.analysis)
    /\ mail.response = Some(ReportSuccess)

\* C30: the form shows its confirmation (submitted) only after a request with
\* the entered email and the analysis was sent to the report delivery endpoint
\* and answered with success.
C30_ConfirmationOnlyAfterDelivery ==
    lead.submitted => ReportDeliveredTo(lead.email)

====
